---- MODULE Spec2Model ----
(***************************************************************************)
(* Schema-evolution engine of cartographer: the Differ (src/migrate/       *)
(* differ.ts) and the Migration Manager (src/migrate/manager.ts).          *)
(*                                                                         *)
(* JavaScript values are written as follows.  An optional boolean          *)
(* (Field.nullable) is one of "true", "false", "undefined".  A default     *)
(* value (Field.default, z.unknown().optional()) is "undefined" or the     *)
(* JSON text of the value.  A string that the code cuts or matches (a file *)
(* name, a migration name) is a sequence of tokens; the token set is       *)
(* prefix-free, so comparing token sequences is comparing the strings.     *)
(***************************************************************************)
EXTENDS Integers, Sequences, FiniteSets, TLC

VARIABLES
  graphDirExists,  \* existsSync(graphDir)
  stateFile,       \* <graphDir>/migrations.json
  migrationsDir,   \* <graphDir>/migrations and the names of the files in it
  call,            \* the manager method called last, with its arguments
  result,          \* what that call returned
  diffOld,         \* oldEntities handed to diffEntities
  diffNew,         \* newEntities handed to diffEntities
  diffResult,      \* the DiffResult diffEntities returned
  generatorDialect, \* the dialect handed to the SQL generator
  migrationOutput  \* the MigrationOutput the SQL generator returned

vars == <<graphDirExists, stateFile, migrationsDir, call, result,
          diffOld, diffNew, diffResult, generatorDialect, migrationOutput>>

managerVars == <<graphDirExists, stateFile, migrationsDir, call, result>>
differVars == <<diffOld, diffNew, diffResult, generatorDialect, migrationOutput>>

(***************************************************************************)
(* Bounds                                                                  *)
(***************************************************************************)
MaxEntities == 2
MaxFields == 2
MaxHistory == 2

(***************************************************************************)
(* Sequence helpers                                                        *)
(***************************************************************************)
RECURSIVE Flatten(_)
Flatten(ss) == IF ss = <<>> THEN <<>> ELSE Head(ss) \o Flatten(Tail(ss))

SeqsUpTo(S, n) == UNION {[1..k -> S] : k \in 0..n}

\* s.filter(test).length, with test[i] the outcome of the test on s[i]
CountWhere(s, test) == Cardinality({i \in DOMAIN s : test[i]})

(***************************************************************************)
(* new Map(arr.map((x) => [x.name, x])): keys keep the position of their   *)
(* first insertion, a later entry with the same key replaces the value.    *)
(***************************************************************************)
RECURSIVE MapOf(_)
MapOf(s) ==
  IF s = <<>> THEN <<>>
  ELSE LET init == MapOf(SubSeq(s, 1, Len(s) - 1))
           x == s[Len(s)]
       IN IF \E i \in DOMAIN init : init[i].name = x.name
          THEN [i \in DOMAIN init |-> IF init[i].name = x.name THEN x ELSE init[i]]
          ELSE Append(init, x)

MapHas(m, name) == \E i \in DOMAIN m : m[i].name = name

MapGet(m, name) == m[CHOOSE i \in DOMAIN m : m[i].name = name]

(***************************************************************************)
(* Differ                                                                  *)
(***************************************************************************)
Undefined == "undefined"

\* JSON.stringify of a default value: undefined stays undefined, a value
\* gives its JSON text.
JsonStringifyValue(v) == IF v = Undefined THEN Undefined ELSE v

SpecChange(type, entity, field, relation, oldValue, newValue, breaking) ==
  [type |-> type, entity |-> entity, field |-> field, relation |-> relation,
   oldValue |-> oldValue, newValue |-> newValue, breaking |-> breaking]

\* the whitelist read in both directions
isCompatibleTypeChange_symmetric(oldType, newType) ==
  \/ {oldType, newType} = {"string", "text"}
  \/ {oldType, newType} = {"integer", "decimal"}

isCompatibleTypeChange(oldType, newType) ==
  \/ oldType = "string" /\ newType = "text"
  \/ oldType = "integer" /\ newType = "decimal"

\* a new field counted as breaking only when nullable is set to false
isAddedFieldBreaking_strict(field) ==
  field.nullable = "false" /\ field.default = Undefined

\* !field.nullable && field.default === undefined
isAddedFieldBreaking(field) ==
  field.nullable # "true" /\ field.default = Undefined

typeDiffers(oldField, newField) == oldField.type # newField.type

nullableDiffers_normalised(oldField, newField) ==
  (IF oldField.nullable = Undefined THEN "false" ELSE oldField.nullable)
    # newField.nullable

nullableDiffers(oldField, newField) == oldField.nullable # newField.nullable

\* breaking only when nullable is set to false
isNullableChangeBreaking_toFalse(oldField, newField) ==
  oldField.nullable = "true" /\ newField.nullable = "false"

\* oldField.nullable === true && newField.nullable !== true
isNullableChangeBreaking(oldField, newField) ==
  oldField.nullable = "true" /\ newField.nullable # "true"

defaultDiffers(oldField, newField) ==
  JsonStringifyValue(oldField.default) # JsonStringifyValue(newField.default)

diffFields(entityName, oldFields, newFields) ==
  LET oldMap == MapOf(oldFields)
      newMap == MapOf(newFields)
      added == Flatten([i \in DOMAIN newMap |->
        IF ~MapHas(oldMap, newMap[i].name)
        THEN <<SpecChange("field_added", entityName, newMap[i].name, Undefined,
                          Undefined, newMap[i], isAddedFieldBreaking(newMap[i]))>>
        ELSE <<>>])
      removed == Flatten([i \in DOMAIN oldMap |->
        IF ~MapHas(newMap, oldMap[i].name)
        THEN <<SpecChange("field_removed", entityName, oldMap[i].name, Undefined,
                          Undefined, Undefined, TRUE)>>
        ELSE <<>>])
      changedOf(newField) ==
        LET oldField == MapGet(oldMap, newField.name)
        IN (IF typeDiffers(oldField, newField)
            THEN <<SpecChange("field_type_changed", entityName, newField.name,
                              Undefined, oldField.type, newField.type,
                              ~isCompatibleTypeChange(oldField.type, newField.type))>>
            ELSE <<>>)
           \o
           (IF nullableDiffers(oldField, newField)
            THEN <<SpecChange("field_nullable_changed", entityName, newField.name,
                              Undefined, oldField.nullable, newField.nullable,
                              isNullableChangeBreaking(oldField, newField))>>
            ELSE <<>>)
           \o
           (IF defaultDiffers(oldField, newField)
            THEN <<SpecChange("field_default_changed", entityName, newField.name,
                              Undefined, oldField.default, newField.default, FALSE)>>
            ELSE <<>>)
      changed == Flatten([i \in DOMAIN newMap |->
        IF MapHas(oldMap, newMap[i].name) THEN changedOf(newMap[i]) ELSE <<>>])
  IN added \o removed \o changed

\* diffRelations taking a removed relation for harmless
diffRelations_lenient(entityName, oldRelations, newRelations) ==
  LET oldMap == MapOf(oldRelations)
      newMap == MapOf(newRelations)
      added == Flatten([i \in DOMAIN newMap |->
        IF ~MapHas(oldMap, newMap[i].name)
        THEN <<SpecChange("relation_added", entityName, Undefined, newMap[i].name,
                          Undefined, newMap[i], FALSE)>>
        ELSE <<>>])
      removed == Flatten([i \in DOMAIN oldMap |->
        IF ~MapHas(newMap, oldMap[i].name)
        THEN <<SpecChange("relation_removed", entityName, Undefined, oldMap[i].name,
                          Undefined, Undefined, FALSE)>>
        ELSE <<>>])
  IN added \o removed

diffRelations(entityName, oldRelations, newRelations) ==
  LET oldMap == MapOf(oldRelations)
      newMap == MapOf(newRelations)
      added == Flatten([i \in DOMAIN newMap |->
        IF ~MapHas(oldMap, newMap[i].name)
        THEN <<SpecChange("relation_added", entityName, Undefined, newMap[i].name,
                          Undefined, newMap[i], FALSE)>>
        ELSE <<>>])
      removed == Flatten([i \in DOMAIN oldMap |->
        IF ~MapHas(newMap, oldMap[i].name)
        THEN <<SpecChange("relation_removed", entityName, Undefined, oldMap[i].name,
                          Undefined, Undefined, TRUE)>>
        ELSE <<>>])
  IN added \o removed

\* entity.relations is optional; an entity without relations carries <<>>,
\* which is what `relations ?? []` reads.
diffEntity(oldEntity, newEntity) ==
  diffFields(newEntity.name, oldEntity.fields, newEntity.fields)
    \o diffRelations(newEntity.name, oldEntity.relations, newEntity.relations)

\* c.type.includes(word)
TypeIncludes(type, word) ==
  CASE word = "added" -> type \in {"entity_added", "field_added", "relation_added"}
    [] word = "removed" -> type \in {"entity_removed", "field_removed", "relation_removed"}
    [] word = "changed" -> type \in {"field_type_changed", "field_nullable_changed",
                                     "field_default_changed"}

\* Each summary line is <<sign, count>> for `${sign} ${count} ...`.
generateSummary(changes) ==
  LET added == CountWhere(changes, [i \in DOMAIN changes |-> TypeIncludes(changes[i].type, "added")])
      removed == CountWhere(changes, [i \in DOMAIN changes |-> TypeIncludes(changes[i].type, "removed")])
      changed == CountWhere(changes, [i \in DOMAIN changes |-> TypeIncludes(changes[i].type, "changed")])
      breaking == CountWhere(changes, [i \in DOMAIN changes |-> changes[i].breaking])
  IN (IF added > 0 THEN << <<"+", added>> >> ELSE <<>>)
     \o (IF removed > 0 THEN << <<"-", removed>> >> ELSE <<>>)
     \o (IF changed > 0 THEN << <<"~", changed>> >> ELSE <<>>)
     \o (IF breaking > 0 THEN << <<"!", breaking>> >> ELSE <<>>)

\* diffEntities classifying the fields of a new entity as it classifies the
\* fields added to an entity that exists
diffEntities_classifying(oldEntities, newEntities) ==
  LET oldMap == MapOf(oldEntities)
      newMap == MapOf(newEntities)
      added == Flatten([i \in DOMAIN newMap |->
        IF ~MapHas(oldMap, newMap[i].name)
        THEN <<SpecChange("entity_added", newMap[i].name, Undefined, Undefined,
                          Undefined, Undefined, FALSE)>>
             \o [j \in DOMAIN newMap[i].fields |->
                   SpecChange("field_added", newMap[i].name,
                              newMap[i].fields[j].name, Undefined,
                              Undefined, newMap[i].fields[j],
                              isAddedFieldBreaking(newMap[i].fields[j]))]
        ELSE <<>>])
      removed == Flatten([i \in DOMAIN oldMap |->
        IF ~MapHas(newMap, oldMap[i].name)
        THEN <<SpecChange("entity_removed", oldMap[i].name, Undefined, Undefined,
                          Undefined, Undefined, TRUE)>>
        ELSE <<>>])
      changed == Flatten([i \in DOMAIN newMap |->
        IF MapHas(oldMap, newMap[i].name)
        THEN diffEntity(MapGet(oldMap, newMap[i].name), newMap[i])
        ELSE <<>>])
      changes == added \o removed \o changed
  IN [changes |-> changes,
      hasBreakingChanges |-> \E i \in DOMAIN changes : changes[i].breaking,
      summary |-> generateSummary(changes)]

diffEntities(oldEntities, newEntities) ==
  LET oldMap == MapOf(oldEntities)
      newMap == MapOf(newEntities)
      added == Flatten([i \in DOMAIN newMap |->
        IF ~MapHas(oldMap, newMap[i].name)
        THEN <<SpecChange("entity_added", newMap[i].name, Undefined, Undefined,
                          Undefined, Undefined, FALSE)>>
             \o [j \in DOMAIN newMap[i].fields |->
                   SpecChange("field_added", newMap[i].name,
                              newMap[i].fields[j].name, Undefined,
                              Undefined, newMap[i].fields[j], FALSE)]
        ELSE <<>>])
      removed == Flatten([i \in DOMAIN oldMap |->
        IF ~MapHas(newMap, oldMap[i].name)
        THEN <<SpecChange("entity_removed", oldMap[i].name, Undefined, Undefined,
                          Undefined, Undefined, TRUE)>>
        ELSE <<>>])
      changed == Flatten([i \in DOMAIN newMap |->
        IF MapHas(oldMap, newMap[i].name)
        THEN diffEntity(MapGet(oldMap, newMap[i].name), newMap[i])
        ELSE <<>>])
      changes == added \o removed \o changed
  IN [changes |-> changes,
      hasBreakingChanges |-> \E i \in DOMAIN changes : changes[i].breaking,
      summary |-> generateSummary(changes)]

(***************************************************************************)
(* SQL generator (src/migrate/sql-generator.ts).  A statement, a comment   *)
(* line or a warning is the sequence of the pieces its template literal    *)
(* puts together: the fixed words of the template and the values in it.    *)
(***************************************************************************)
SqlDialects == {"postgresql", "mysql", "sqlite"}

FieldTypes == {"uuid", "string", "text", "integer", "decimal", "boolean",
               "timestamp", "date", "json", "enum"}

fieldTypeToSql(type, dialect) ==
  CASE type = "uuid" ->
         (CASE dialect = "postgresql" -> "UUID" [] dialect = "mysql" -> "CHAR(36)"
            [] dialect = "sqlite" -> "TEXT")
    [] type = "string" ->
         (CASE dialect = "postgresql" -> "VARCHAR(255)"
            [] dialect = "mysql" -> "VARCHAR(255)" [] dialect = "sqlite" -> "TEXT")
    [] type = "text" -> "TEXT"
    [] type = "integer" ->
         (CASE dialect = "postgresql" -> "INTEGER" [] dialect = "mysql" -> "INT"
            [] dialect = "sqlite" -> "INTEGER")
    [] type = "decimal" ->
         (CASE dialect = "postgresql" -> "DECIMAL(10,2)"
            [] dialect = "mysql" -> "DECIMAL(10,2)" [] dialect = "sqlite" -> "REAL")
    [] type = "boolean" ->
         (CASE dialect = "postgresql" -> "BOOLEAN" [] dialect = "mysql" -> "TINYINT(1)"
            [] dialect = "sqlite" -> "INTEGER")
    [] type = "timestamp" ->
         (CASE dialect = "postgresql" -> "TIMESTAMP WITH TIME ZONE"
            [] dialect = "mysql" -> "DATETIME" [] dialect = "sqlite" -> "TEXT")
    [] type = "date" ->
         (CASE dialect = "postgresql" -> "DATE" [] dialect = "mysql" -> "DATE"
            [] dialect = "sqlite" -> "TEXT")
    [] type = "json" ->
         (CASE dialect = "postgresql" -> "JSONB" [] dialect = "mysql" -> "JSON"
            [] dialect = "sqlite" -> "TEXT")
    [] type = "enum" ->
         (CASE dialect = "postgresql" -> "VARCHAR(50)"
            [] dialect = "mysql" -> "VARCHAR(50)" [] dialect = "sqlite" -> "TEXT")

\* name.replace(/([A-Z])/g, "_$1").toLowerCase().replace(/^_/, "") on the
\* names of the model; a name without capitals is returned as it is.
snakeCase(name) ==
  CASE name = "User" -> "user"
    [] name = "Post" -> "post"
    [] OTHER -> name

\* lines 392-397 on the snake-case names of the model: none of them ends
\* with y, s, x, ch or sh, so "s" is appended.
entityToTableName(entityName) == snakeCase(entityName) \o "s"

fieldToColumnName(fieldName) == snakeCase(fieldName)

\* The JSON texts of the defaults that are strings, and of those that are
\* objects.
JsonStringTexts == {"\"draft\"", "\"it's\""}
JsonObjectTexts == {"{}"}

\* value.replace(/'/g, "''") of the string a JSON text stands for
escapeQuotes(value) ==
  CASE value = "\"draft\"" -> "draft"
    [] value = "\"it's\"" -> "it''s"
    [] value = "{}" -> "{}"

\* formatDefaultValue on the JSON text of a default: null, a boolean, a
\* string, an object, or a number (String(value) of a number is its JSON
\* text, String(value) of an object is "[object Object]").
formatDefaultValue(value, type, dialect) ==
  CASE value = "null" -> "NULL"
    [] value = "true" -> IF dialect = "postgresql" THEN "TRUE" ELSE "1"
    [] value = "false" -> IF dialect = "postgresql" THEN "FALSE" ELSE "0"
    [] value \in JsonStringTexts -> "'" \o escapeQuotes(value) \o "'"
    [] value \in JsonObjectTexts ->
         IF type = "json" THEN "'" \o escapeQuotes(value) \o "'"
         ELSE "[object Object]"
    [] OTHER -> value

\* the two audit columns, lines 440-449
timestampColumns(dialect) ==
  CASE dialect = "postgresql" ->
         << <<"created_at", "TIMESTAMP WITH TIME ZONE", "DEFAULT", "CURRENT_TIMESTAMP">>,
            <<"updated_at", "TIMESTAMP WITH TIME ZONE", "DEFAULT", "CURRENT_TIMESTAMP">> >>
    [] dialect = "mysql" ->
         << <<"created_at", "DATETIME", "DEFAULT", "CURRENT_TIMESTAMP">>,
            <<"updated_at", "DATETIME", "DEFAULT", "CURRENT_TIMESTAMP",
              "ON UPDATE CURRENT_TIMESTAMP">> >>
    [] OTHER ->
         << <<"created_at", "TEXT", "DEFAULT", "CURRENT_TIMESTAMP">>,
            <<"updated_at", "TEXT", "DEFAULT", "CURRENT_TIMESTAMP">> >>

\* the column clause of CREATE TABLE written as generateAddColumn writes it
createColumnDef_asAdded(field, dialect) ==
  <<fieldToColumnName(field.name), fieldTypeToSql(field.type, dialect)>>
    \o (IF field.primary THEN <<"PRIMARY KEY">> ELSE <<>>)
    \o (IF field.nullable # "true" THEN <<"NOT NULL">> ELSE <<>>)
    \o (IF field.unique THEN <<"UNIQUE">> ELSE <<>>)
    \o (IF field.default # Undefined
        THEN <<"DEFAULT", formatDefaultValue(field.default, field.type, dialect)>>
        ELSE <<>>)

\* one column clause of CREATE TABLE, lines 418-434
createColumnDef(field, dialect) ==
  <<fieldToColumnName(field.name), fieldTypeToSql(field.type, dialect)>>
    \o (IF field.primary THEN <<"PRIMARY KEY">> ELSE <<>>)
    \o (IF field.nullable # "true" /\ ~field.primary THEN <<"NOT NULL">> ELSE <<>>)
    \o (IF field.unique /\ ~field.primary THEN <<"UNIQUE">> ELSE <<>>)
    \o (IF field.default # Undefined
        THEN <<"DEFAULT", formatDefaultValue(field.default, field.type, dialect)>>
        ELSE <<>>)

\* columns.join(",\n")
RECURSIVE joinColumns(_)
joinColumns(columns) ==
  IF columns = <<>> THEN <<>>
  ELSE IF Len(columns) = 1 THEN columns[1]
  ELSE columns[1] \o <<",">> \o joinColumns(Tail(columns))

generateCreateTable(entity, dialect) ==
  LET columns == [i \in DOMAIN entity.fields |->
                    createColumnDef(entity.fields[i], dialect)]
                 \o timestampColumns(dialect)
  IN << <<"CREATE TABLE", entityToTableName(entity.name), "(">>
          \o joinColumns(columns) \o <<");">> >>

\* DROP TABLE without IF EXISTS
generateDropTable_plain(entityName) ==
  << <<"DROP TABLE", entityToTableName(entityName), ";">> >>

generateDropTable(entityName) ==
  << <<"DROP TABLE IF EXISTS", entityToTableName(entityName), ";">> >>

generateAddColumn(entityName, field, dialect) ==
  << <<"ALTER TABLE", entityToTableName(entityName), "ADD COLUMN",
       fieldToColumnName(field.name), fieldTypeToSql(field.type, dialect)>>
     \o (IF field.nullable # "true" THEN <<"NOT NULL">> ELSE <<>>)
     \o (IF field.unique THEN <<"UNIQUE">> ELSE <<>>)
     \o (IF field.default # Undefined
         THEN <<"DEFAULT", formatDefaultValue(field.default, field.type, dialect)>>
         ELSE <<>>)
     \o <<";">> >>

generateDropColumn(entityName, fieldName) ==
  << <<"ALTER TABLE", entityToTableName(entityName), "DROP COLUMN",
       fieldToColumnName(fieldName), ";">> >>

generateAlterColumnType(entityName, fieldName, newType, dialect) ==
  LET tableName == entityToTableName(entityName)
      columnName == fieldToColumnName(fieldName)
      sqlType == fieldTypeToSql(newType, dialect)
  IN CASE dialect = "postgresql" ->
            << <<"ALTER TABLE", tableName, "ALTER COLUMN", columnName, "TYPE",
                 sqlType, ";">> >>
       [] dialect = "mysql" ->
            << <<"ALTER TABLE", tableName, "MODIFY COLUMN", columnName,
                 sqlType, ";">> >>
       [] OTHER ->
            << <<"--", "SQLite requires table recreation to change column type for",
                 tableName, ".", columnName>> >>

\* generateAlterNullable altering the column in place under mysql too
generateAlterNullable_modifying(entityName, fieldName, nullable, dialect) ==
  LET tableName == entityToTableName(entityName)
      columnName == fieldToColumnName(fieldName)
  IN CASE dialect = "postgresql" ->
            IF nullable = "true"
            THEN << <<"ALTER TABLE", tableName, "ALTER COLUMN", columnName,
                      "DROP NOT NULL", ";">> >>
            ELSE << <<"ALTER TABLE", tableName, "ALTER COLUMN", columnName,
                      "SET NOT NULL", ";">> >>
       [] dialect = "mysql" ->
            << <<"ALTER TABLE", tableName, "MODIFY COLUMN", columnName,
                 IF nullable = "true" THEN "NULL" ELSE "NOT NULL", ";">> >>
       [] OTHER ->
            << <<"--", "SQLite requires table recreation to change nullable for",
                 tableName, ".", columnName>> >>

\* nullable is change.newValue or change.oldValue read as a boolean: true,
\* false or undefined; `if (nullable)` takes undefined for false.
generateAlterNullable(entityName, fieldName, nullable, dialect) ==
  LET tableName == entityToTableName(entityName)
      columnName == fieldToColumnName(fieldName)
  IN CASE dialect = "postgresql" ->
            IF nullable = "true"
            THEN << <<"ALTER TABLE", tableName, "ALTER COLUMN", columnName,
                      "DROP NOT NULL", ";">> >>
            ELSE << <<"ALTER TABLE", tableName, "ALTER COLUMN", columnName,
                      "SET NOT NULL", ";">> >>
       [] dialect = "mysql" ->
            << <<"--", "MySQL: Modify column", tableName, ".", columnName,
                 "to set nullable=", nullable>> >>
       [] OTHER ->
            << <<"--", "SQLite requires table recreation to change nullable for",
                 tableName, ".", columnName>> >>

generateAlterDefault(entityName, fieldName, newDefault, fieldType, dialect) ==
  LET tableName == entityToTableName(entityName)
      columnName == fieldToColumnName(fieldName)
      defaultVal == formatDefaultValue(newDefault, fieldType, dialect)
  IN IF newDefault = Undefined
     THEN IF dialect = "postgresql"
          THEN << <<"ALTER TABLE", tableName, "ALTER COLUMN", columnName,
                    "DROP DEFAULT", ";">> >>
          ELSE << <<"--", "Drop default for", tableName, ".", columnName>> >>
     ELSE IF dialect \in {"postgresql", "mysql"}
          THEN << <<"ALTER TABLE", tableName, "ALTER COLUMN", columnName,
                    "SET DEFAULT", defaultVal, ";">> >>
          ELSE << <<"--", "SQLite: Set default for", tableName, ".", columnName,
                    "to", defaultVal>> >>

\* entity?.fields.find((f) => f.name === change.field): the first field of
\* that name, <<>> when there is none
findField(fields, name) ==
  IF \E i \in DOMAIN fields : fields[i].name = name
  THEN <<fields[CHOOSE i \in DOMAIN fields :
                  /\ fields[i].name = name
                  /\ \A j \in 1..(i - 1) : fields[j].name # name]>>
  ELSE <<>>

\* What one change adds to up, down and warnings: one case of the switch of
\* lines 607-727.
changeOutput(change, entityMap, dialect) ==
  CASE change.type = "entity_added" ->
         IF MapHas(entityMap, change.entity)
         THEN [up |-> generateCreateTable(MapGet(entityMap, change.entity), dialect),
               down |-> generateDropTable(change.entity),
               warnings |-> <<>>]
         ELSE [up |-> <<>>, down |-> <<>>, warnings |-> <<>>]
    [] change.type = "entity_removed" ->
         [up |-> generateDropTable(change.entity),
          down |-> << <<"--", "Cannot recreate dropped table",
                        entityToTableName(change.entity)>> >>,
          warnings |-> << <<"Dropping table", entityToTableName(change.entity),
                            "- this will DELETE ALL DATA!">> >>]
    [] change.type = "field_added" ->
         [up |-> generateAddColumn(change.entity, change.newValue, dialect),
          down |-> generateDropColumn(change.entity, change.field),
          warnings |-> IF change.breaking
                       THEN << <<"Adding non-nullable column", change.entity, ".",
                                 change.field,
                                 "without default may fail if table has data">> >>
                       ELSE <<>>]
    [] change.type = "field_removed" ->
         [up |-> generateDropColumn(change.entity, change.field),
          down |-> << <<"--", "Cannot recreate dropped column", change.entity,
                        ".", change.field>> >>,
          warnings |-> << <<"Dropping column", change.entity, ".", change.field,
                            "- this will DELETE COLUMN DATA!">> >>]
    [] change.type = "field_type_changed" ->
         [up |-> generateAlterColumnType(change.entity, change.field,
                                         change.newValue, dialect),
          down |-> generateAlterColumnType(change.entity, change.field,
                                           change.oldValue, dialect),
          warnings |-> IF change.breaking
                       THEN << <<"Type change", change.entity, ".", change.field,
                                 ":", change.oldValue, "->", change.newValue,
                                 "may cause data loss">> >>
                       ELSE <<>>]
    [] change.type = "field_nullable_changed" ->
         [up |-> generateAlterNullable(change.entity, change.field,
                                       change.newValue, dialect),
          down |-> generateAlterNullable(change.entity, change.field,
                                         change.oldValue, dialect),
          warnings |-> IF change.breaking
                       THEN << <<"Making", change.entity, ".", change.field,
                                 "non-nullable may fail if NULL values exist">> >>
                       ELSE <<>>]
    [] change.type = "field_default_changed" ->
         LET found == IF MapHas(entityMap, change.entity)
                      THEN findField(MapGet(entityMap, change.entity).fields,
                                     change.field)
                      ELSE <<>>
         IN IF found # <<>>
            THEN [up |-> generateAlterDefault(change.entity, change.field,
                                              change.newValue, found[1].type,
                                              dialect),
                  down |-> generateAlterDefault(change.entity, change.field,
                                                change.oldValue, found[1].type,
                                                dialect),
                  warnings |-> <<>>]
            ELSE [up |-> <<>>, down |-> <<>>, warnings |-> <<>>]
    [] change.type \in {"relation_added", "relation_removed"} ->
         [up |-> <<>>, down |-> <<>>, warnings |-> <<>>]

\* `+ ${n} additions` and the like, one text per summary line
summaryText(line) ==
  line[1] \o " " \o ToString(line[2]) \o
    (CASE line[1] = "+" -> " additions"
       [] line[1] = "-" -> " removals"
       [] line[1] = "~" -> " modifications"
       [] line[1] = "!" -> " breaking changes")

\* diffResult.summary.join(", ") || "No changes"
describeSummary(summary) ==
  IF summary = <<>> THEN <<"No changes">>
  ELSE [i \in DOMAIN summary |-> summaryText(summary[i])]

\* the elements of a sequence from the last to the first
Reversed(s) == [i \in DOMAIN s |-> s[Len(s) + 1 - i]]

\* generateMigration listing the down statements from the last change to
\* the first
generateMigration_unwinding(diff, entities, dialect) ==
  LET entityMap == MapOf(entities)
      outputs == [i \in DOMAIN diff.changes |->
                    changeOutput(diff.changes[i], entityMap, dialect)]
  IN [up |-> Flatten([i \in DOMAIN outputs |-> outputs[i].up]),
      down |-> Reversed(Flatten([i \in DOMAIN outputs |-> outputs[i].down])),
      description |-> describeSummary(diff.summary),
      hasDestructiveChanges |-> diff.hasBreakingChanges,
      warnings |-> Flatten([i \in DOMAIN outputs |-> outputs[i].warnings])]

\* generateMigration noting every relation change as a comment in both lists
generateMigration_relating(diff, entities, dialect) ==
  LET entityMap == MapOf(entities)
      outputs == [i \in DOMAIN diff.changes |->
                    IF diff.changes[i].type \in {"relation_added", "relation_removed"}
                    THEN [up |-> << <<"--", diff.changes[i].type,
                                      diff.changes[i].relation>> >>,
                          down |-> << <<"--", diff.changes[i].type,
                                        diff.changes[i].relation>> >>,
                          warnings |-> <<>>]
                    ELSE changeOutput(diff.changes[i], entityMap, dialect)]
  IN [up |-> Flatten([i \in DOMAIN outputs |-> outputs[i].up]),
      down |-> Flatten([i \in DOMAIN outputs |-> outputs[i].down]),
      description |-> describeSummary(diff.summary),
      hasDestructiveChanges |-> diff.hasBreakingChanges,
      warnings |-> Flatten([i \in DOMAIN outputs |-> outputs[i].warnings])]

\* generateMigration calling a migration destructive when it warns
generateMigration_warned(diff, entities, dialect) ==
  LET entityMap == MapOf(entities)
      outputs == [i \in DOMAIN diff.changes |->
                    changeOutput(diff.changes[i], entityMap, dialect)]
      warnings == Flatten([i \in DOMAIN outputs |-> outputs[i].warnings])
  IN [up |-> Flatten([i \in DOMAIN outputs |-> outputs[i].up]),
      down |-> Flatten([i \in DOMAIN outputs |-> outputs[i].down]),
      description |-> describeSummary(diff.summary),
      hasDestructiveChanges |-> warnings # <<>>,
      warnings |-> warnings]

\* generateMigration of the SQL generator, lines 596-740
generateMigration(diff, entities, dialect) ==
  LET entityMap == MapOf(entities)
      outputs == [i \in DOMAIN diff.changes |->
                    changeOutput(diff.changes[i], entityMap, dialect)]
  IN [up |-> Flatten([i \in DOMAIN outputs |-> outputs[i].up]),
      down |-> Flatten([i \in DOMAIN outputs |-> outputs[i].down]),
      description |-> describeSummary(diff.summary),
      hasDestructiveChanges |-> diff.hasBreakingChanges,
      warnings |-> Flatten([i \in DOMAIN outputs |-> outputs[i].warnings])]

(***************************************************************************)
(* Inputs of the differ                                                    *)
(***************************************************************************)
Field(name, type, primary, unique, nullable, default) ==
  [name |-> name, type |-> type, primary |-> primary, unique |-> unique,
   nullable |-> nullable, default |-> default]

Relation(name, entity, type) == [name |-> name, entity |-> entity, type |-> type]

Entity(name, fields, relations) ==
  [name |-> name, fields |-> fields, relations |-> relations]

IdField == Field("id", "uuid", TRUE, FALSE, Undefined, Undefined)
EmailField == Field("email", "string", FALSE, TRUE, Undefined, Undefined)
EmailTextField == Field("email", "text", FALSE, FALSE, "true", "null")
PostsRelation == Relation("posts", "Post", "has_many")

FieldPool == {EmailField, EmailTextField}
RelationLists == {<<>>, <<PostsRelation>>}
EntityNames == {"User", "Post"}

EntityPool ==
  {Entity(n, fs, rs) : n \in EntityNames,
                       fs \in SeqsUpTo(FieldPool, MaxFields),
                       rs \in RelationLists}

EntityLists == SeqsUpTo(EntityPool, MaxEntities)
ShortEntityLists == SeqsUpTo(EntityPool, 1)

\* The values of the optional nullable flag and of the optional default.
NullableValues == {"true", "false", Undefined}
DefaultValues == {Undefined, "null", "true"}

\* One field "email" in every type, and in three types with every nullable
\* flag and default.
TypedFields ==
  {Field("email", t, FALSE, FALSE, Undefined, Undefined) : t \in FieldTypes}

FieldVariants ==
  {Field("email", t, FALSE, FALSE, n, d) :
     t \in {"string", "text", "integer"}, n \in NullableValues,
     d \in DefaultValues}

UserWith(field) == Entity("User", <<IdField, field>>, <<>>)

\* an entity that keeps its name and changes one field
ChangedFieldInputs ==
  {<<(<<UserWith(f)>>), (<<UserWith(g)>>)>> : f \in TypedFields, g \in TypedFields}
  \cup {<<(<<UserWith(f)>>), (<<UserWith(g)>>)>> :
          f \in FieldVariants, g \in FieldVariants}

\* an entity that keeps its name and gains or loses one field
AddedFieldInputs ==
  {<<(<<Entity("User", <<IdField>>, <<>>)>>), (<<UserWith(f)>>)>> :
     f \in FieldVariants}

RemovedFieldInputs == {<<input[2], input[1]>> : input \in AddedFieldInputs}

\* entity lists that differ by one more entity "Post", after or before the
\* entities kept
AddedEntityInputs ==
  {<<kept, kept \o <<Entity("Post", <<IdField, f>>, rs)>> >> :
     kept \in {<<>>, <<UserWith(EmailField)>>}, f \in FieldVariants,
     rs \in RelationLists}
  \cup {<<kept, <<Entity("Post", <<f>>, <<>>)>> \o kept>> :
          kept \in {<<UserWith(EmailField)>>}, f \in FieldVariants}

RemovedEntityInputs == {<<input[2], input[1]>> : input \in AddedEntityInputs}

\* One field "data" of type json or text whose default is a string, an
\* object or unset.
DataFields ==
  {Field("data", t, FALSE, FALSE, "true", d) :
     t \in {"json", "text"}, d \in {Undefined} \cup JsonStringTexts \cup JsonObjectTexts}

ChangedDataInputs ==
  {<<(<<UserWith(f)>>), (<<UserWith(g)>>)>> : f \in DataFields, g \in DataFields}

\* One field "code" with every combination of primary, unique, nullable
\* and default, and the new entity that has it next to "id".
FlaggedFields ==
  {Field("code", "string", p, u, n, d) :
     p \in BOOLEAN, u \in BOOLEAN, n \in NullableValues, d \in {Undefined, "null"}}

CreatedEntityInputs ==
  {<<(<<>>), (<<Entity("Post", <<f, IdField>>, <<>>)>>)>> : f \in FlaggedFields}

\* the same field added to an entity that exists and brought by a new one
AddedTwiceInputs ==
  {<<(<<Entity("User", <<IdField>>, <<>>)>>),
     (<<UserWith(f), Entity("Post", <<IdField, f>>, <<>>)>>)>> :
     f \in FieldVariants}

\* every list against itself, every pair of lists of at most one entity,
\* and the pairs that differ by one field or by one entity
DiffInputs ==
  {<<E, E>> : E \in EntityLists} \cup (ShortEntityLists \X ShortEntityLists)
    \cup ChangedFieldInputs \cup AddedFieldInputs \cup RemovedFieldInputs
    \cup AddedEntityInputs \cup RemovedEntityInputs \cup AddedTwiceInputs
    \cup ChangedDataInputs \cup CreatedEntityInputs

NoDiff == [done |-> FALSE, changes |-> <<>>, hasBreakingChanges |-> FALSE,
           summary |-> <<>>]

NoOutput == [done |-> FALSE, up |-> <<>>, down |-> <<>>, description |-> <<>>,
             hasDestructiveChanges |-> FALSE, warnings |-> <<>>]

(***************************************************************************)
(* Strings the manager cuts and matches                                    *)
(***************************************************************************)
\* The seconds at which new Date() is read.
Instants == {1, 2}

\* new Date().toISOString().replace(/[:.]/g, "-").slice(0, 19) at second c
Timestamp(c) == "2024-01-01T00-00-0" \o ToString(c)

TimestampTokens == {Timestamp(c) : c \in Instants}

\* new Date().toISOString() as recordApplied and baseline store it; the
\* manager never reads appliedAt back, and one instant stands for all.
AppliedAt == "2024-01-01T00:00:00.000Z"

\* Code-unit order of the tokens (.sort() compares UTF-16 code units).
TokenRank(t) ==
  CASE t = ".sql" -> 1
    [] t = ".txt" -> 2
    [] t \in TimestampTokens -> 2 + (CHOOSE c \in Instants : t = Timestamp(c))
    [] t = "_" -> 100
    [] t = "add_users" -> 101
    [] t = "baseline" -> 102
    [] t = "fix" -> 103
    [] t = "ite" -> 104
    [] t = "migration_" -> 105
    [] t = "notes" -> 106
    [] t = "seed" -> 107

StringLess(a, b) ==
  \E i \in 1..(Len(a) + 1) :
    /\ \A j \in 1..(i - 1) : j <= Len(b) /\ a[j] = b[j]
    /\ \/ i = Len(a) + 1 /\ i <= Len(b)
       \/ i <= Len(a) /\ i <= Len(b) /\ TokenRank(a[i]) < TokenRank(b[i])

\* Array.prototype.sort() without a comparator
SortStrings(names) == SortSeq(names, StringLess)

\* f.endsWith(".sql")
endsWithSql(f) == Len(f) > 0 /\ f[Len(f)] = ".sql"

\* f.replace(/^\d{4}-\d{2}-\d{2}T\d{2}-\d{2}-\d{2}_/, "")
stripTimestampPrefix(f) ==
  IF Len(f) >= 2 /\ f[1] \in TimestampTokens /\ f[2] = "_"
  THEN SubSeq(f, 3, Len(f))
  ELSE f

\* s.replace(".sql", ""): a string pattern replaces its first occurrence
replaceFirstSql(s) ==
  IF \E i \in DOMAIN s : s[i] = ".sql"
  THEN LET k == CHOOSE i \in DOMAIN s :
                  s[i] = ".sql" /\ \A j \in 1..(i - 1) : s[j] # ".sql"
       IN SubSeq(s, 1, k - 1) \o SubSeq(s, k + 1, Len(s))
  ELSE s

\* `migration_${timestamp}`
defaultMigrationName(timestamp) == <<"migration_", timestamp>>

\* `${migration.timestamp}_${migration.name}.sql`
migrationFileName(migration) ==
  <<migration.timestamp, "_">> \o migration.name \o <<".sql">>

(***************************************************************************)
(* Migration Manager: state file                                           *)
(***************************************************************************)
FreshState == [version |-> 1, lastSnapshot |-> <<>>, history |-> <<>>]

\* JSON.stringify(state, null, 2).  A property whose value is undefined is
\* left out of the text and reads back as undefined; every other value of
\* the modelled domain is written as its JSON text.
JsonStringifyField(f) ==
  [name |-> f.name, type |-> f.type, primary |-> f.primary, unique |-> f.unique,
   nullable |-> f.nullable, default |-> JsonStringifyValue(f.default)]

JsonStringifyEntities(entities) ==
  [i \in DOMAIN entities |->
     [name |-> entities[i].name,
      fields |-> [j \in DOMAIN entities[i].fields |->
                    JsonStringifyField(entities[i].fields[j])],
      relations |-> entities[i].relations]]

JsonStringifyState(state) ==
  [version |-> state.version,
   lastSnapshot |-> JsonStringifyEntities(state.lastSnapshot),
   history |-> state.history]

\* JSON.parse(content) as MigrationState
JsonParseState(content) == content

AbsentFile == [kind |-> "absent", content |-> FreshState]

\* A file that exists and whose text is the text of a state cut before its
\* end: JSON.parse throws on it.
CorruptFile(state) == [kind |-> "corrupt", content |-> JsonStringifyState(state)]

\* A file that exists and that readFile rejects.
UnreadableFile(state) ==
  [kind |-> "unreadable", content |-> JsonStringifyState(state)]

\* loadState taking whatever an existing file holds for a state
loadState_trusting(file) ==
  IF file.kind = "absent" THEN FreshState ELSE JsonParseState(file.content)

\* loadState, lines 67-86: readFile or JSON.parse throwing is caught and
\* answered with the fresh state.
loadState(file) ==
  IF file.kind = "absent" THEN FreshState
  ELSE IF file.kind \in {"corrupt", "unreadable"} THEN FreshState
  ELSE JsonParseState(file.content)

saveState(state) == [kind |-> "valid", content |-> JsonStringifyState(state)]

\* simpleHash(str): the fingerprint is kept as the text it was computed from.
simpleHash(str) == [of |-> str]

TextContent(text) == [text |-> text, json |-> <<>>]
JsonContent(entities) == [text |-> "", json |-> JsonStringifyEntities(entities)]

MigrationRecord(name, appliedAt, hash, direction) ==
  [name |-> name, appliedAt |-> appliedAt, hash |-> hash, direction |-> direction]

(***************************************************************************)
(* Migration Manager: what each method computes                            *)
(***************************************************************************)
Null == [kind |-> "null", value |-> <<>>]

\* interleaves a separator into a list of texts
JoinWith(texts, separator) ==
  IF texts = <<>> THEN <<>>
  ELSE <<Head(texts)>> \o
       Flatten([i \in DOMAIN Tail(texts) |-> <<separator, Tail(texts)[i]>>])

\* formatMigrationFile of the SQL generator (differ.ts, lines 745-780): the
\* lines of the file, each a sequence of pieces.  The instant of the
\* "Generated" line is read by nothing, and one instant stands for all.
formatMigrationFile(migration, name) ==
  <<<<"-- Migration:">> \o name,
    <<"-- Description:">> \o JoinWith(migration.description, ", "),
    <<"-- Generated:", AppliedAt>>,
    <<"">>>>
  \o (IF Len(migration.warnings) > 0
      THEN <<<<"-- WARNINGS:">>>>
           \o [i \in DOMAIN migration.warnings |->
                 <<"--">> \o migration.warnings[i]]
           \o <<<<"">>>>
      ELSE <<>>)
  \o <<<<"-- Up Migration">>>>
  \o (IF Len(migration.up) > 0 THEN migration.up ELSE <<<<"-- No changes">>>>)
  \o <<<<"">>, <<"-- Down Migration (rollback)">>>>
  \o (IF Len(migration.down) > 0 THEN migration.down
      ELSE <<<<"-- No changes">>>>)

\* the GeneratedMigration of lines 113-124; this.dialect is generatorDialect
\* and `now` the second at which the clock is read.  The output is computed
\* once and handed to formatMigrationFile, as in lines 115-116.
GeneratedMigration(diff, currentEntities, name, now) ==
  LET timestamp == Timestamp(now)
      migrationName == IF name = <<>> THEN defaultMigrationName(timestamp)
                       ELSE name
  IN CHOOSE migration \in
       {[name |-> migrationName,
         timestamp |-> timestamp,
         diff |-> diff,
         output |-> output,
         content |-> formatMigrationFile(output, migrationName)] :
          output \in {generateMigration(diff, currentEntities, generatorDialect)}} :
       TRUE

\* generateMigration without the early return of lines 109-111
generateMigrationResult_unchecked(state, currentEntities, name, now) ==
  LET diff == diffEntities(state.lastSnapshot, currentEntities)
  IN [kind |-> "migration",
      value |-> GeneratedMigration(diff, currentEntities, name, now)]

\* generateMigration, lines 102-125
generateMigrationResult(state, currentEntities, name, now) ==
  LET diff == diffEntities(state.lastSnapshot, currentEntities)
  IN IF Len(diff.changes) = 0
     THEN Null
     ELSE [kind |-> "migration",
           value |-> GeneratedMigration(diff, currentEntities, name, now)]

\* saveMigration writing a state built anew instead of the loaded one
saveMigrationState_fresh(state, currentEntities) ==
  [FreshState EXCEPT !.lastSnapshot = currentEntities]

\* saveMigration, lines 145-146
saveMigrationState(state, currentEntities) ==
  [state EXCEPT !.lastSnapshot = currentEntities]

\* recordApplied keeping the history and dropping the rest of the state
recordAppliedState_fresh(state, name, direction, content) ==
  [FreshState EXCEPT !.history =
     Append(state.history,
            MigrationRecord(name, AppliedAt, simpleHash(TextContent(content)),
                            direction))]

\* recordApplied, lines 160-166
recordAppliedState(state, name, direction, content) ==
  [state EXCEPT !.history =
     Append(@, MigrationRecord(name, AppliedAt, simpleHash(TextContent(content)),
                               direction))]

\* baseline starting the history over
baselineState_restart(state, entities) ==
  [state EXCEPT !.lastSnapshot = entities,
                !.history = <<MigrationRecord(<<"baseline">>, AppliedAt,
                                simpleHash(JsonContent(entities)), "up")>>]

\* baseline recording itself without taking the snapshot
baselineState_recordOnly(state, entities) ==
  [state EXCEPT !.history = Append(@, MigrationRecord(<<"baseline">>, AppliedAt,
                                        simpleHash(JsonContent(entities)), "up"))]

\* baseline, lines 220-227
baselineState(state, entities) ==
  [state EXCEPT !.lastSnapshot = entities,
                !.history = Append(@, MigrationRecord(<<"baseline">>, AppliedAt,
                                        simpleHash(JsonContent(entities)), "up"))]

\* readdir(): the directory's entries as a list
RECURSIVE SetToSeq(_)
SetToSeq(S) ==
  IF S = {} THEN <<>>
  ELSE LET x == CHOOSE y \in S : TRUE IN <<x>> \o SetToSeq(S \ {x})

getPendingMigrations(dir, file) ==
  IF ~dir.exists THEN <<>>
  ELSE LET files == SetToSeq(dir.files)
           state == loadState(file)
           appliedNames == {state.history[i].name :
                              i \in {k \in DOMAIN state.history :
                                       state.history[k].direction = "up"}}
           sqlFiles == SelectSeq(files, endsWithSql)
           names == [i \in DOMAIN sqlFiles |->
                       replaceFirstSql(stripTimestampPrefix(sqlFiles[i]))]
       IN SortStrings(SelectSeq(names, LAMBDA n : n \notin appliedNames))

\* getStatus counting every history record as applied
getStatus_countsAll(dir, file) ==
  LET state == loadState(file)
      pending == getPendingMigrations(dir, file)
  IN [hasSnapshot |-> Len(state.lastSnapshot) > 0,
      lastSnapshotEntities |-> Len(state.lastSnapshot),
      appliedCount |-> Len(state.history),
      pendingCount |-> Len(pending),
      lastApplied |-> IF Len(state.history) > 0
                      THEN <<state.history[Len(state.history)]>>
                      ELSE <<>>]

getStatus(dir, file) ==
  LET state == loadState(file)
      pending == getPendingMigrations(dir, file)
  IN [hasSnapshot |-> Len(state.lastSnapshot) > 0,
      lastSnapshotEntities |-> Len(state.lastSnapshot),
      appliedCount |-> CountWhere(state.history, [i \in DOMAIN state.history |-> state.history[i].direction = "up"]),
      pendingCount |-> Len(pending),
      lastApplied |-> IF Len(state.history) > 0
                      THEN <<state.history[Len(state.history)]>>
                      ELSE <<>>]

(***************************************************************************)
(* Inputs of the manager                                                   *)
(***************************************************************************)
UserV1 == Entity("User", <<IdField>>, <<>>)
UserV2 == Entity("User", <<IdField, EmailField>>, <<>>)
PostV1 == Entity("Post", <<IdField>>, <<>>)

ManagerEntityLists == {<<>>, <<UserV1>>, <<UserV2, PostV1>>}

\* "add_users" and "fix.sqlite"
MigrationNames == {<<"add_users">>, <<"fix", ".sql", "ite">>}

\* the optional name argument; <<>> is an omitted (or empty) name
NameArguments == {<<>>, <<"add_users">>}

Directions == {"up", "down"}

Contents == {"CREATE TABLE test;"}

\* The GeneratedMigrations handed to saveMigration, as it reads them:
\* timestamp and name.
GeneratedMigrations ==
  {[name |-> <<"add_users">>, timestamp |-> Timestamp(1)],
   [name |-> <<"fix", ".sql", "ite">>, timestamp |-> Timestamp(2)]}

\* files found in the migrations directory before the manager is used:
\* "notes.txt" and "seed.sql"
ForeignFiles == {<<"notes", ".txt">>, <<"seed", ".sql">>}

NoDir == [exists |-> FALSE, files |-> {}]

\* History records a state file may hold when loadState reads it.
StoredRecords ==
  {MigrationRecord(<<"baseline">>, AppliedAt,
                   simpleHash(JsonContent(<<UserV1>>)), "up")}
  \cup {MigrationRecord(<<"add_users">>, AppliedAt,
                        simpleHash(TextContent(c)), d) :
          c \in Contents, d \in Directions}

StoredStates ==
  {[version |-> 1, lastSnapshot |-> E, history |-> h] :
     E \in ManagerEntityLists, h \in SeqsUpTo(StoredRecords, MaxHistory)}

\* What loadState may find at <graphDir>/migrations.json.
StateFiles ==
  {AbsentFile}
  \cup {saveState(st) : st \in StoredStates}
  \cup {CorruptFile(st) : st \in StoredStates}
  \cup {UnreadableFile(st) : st \in StoredStates}

NoMigration == [name |-> <<>>, timestamp |-> ""]

Call(op, entities, migration, name, direction, content) ==
  [op |-> op, entities |-> entities, migration |-> migration, name |-> name,
   direction |-> direction, content |-> content]

NoArguments(op) == Call(op, <<>>, NoMigration, <<>>, "", "")

(***************************************************************************)
(* Migration Manager: the methods                                          *)
(***************************************************************************)
UnchangedFiles == UNCHANGED <<graphDirExists, stateFile, migrationsDir>>

\* saveState: mkdir(dirname(stateFile)) when missing, then writeFile
WriteState(state) ==
  /\ graphDirExists' = TRUE
  /\ stateFile' = saveState(state)

LoadState ==
  /\ call' = NoArguments("loadState")
  /\ result' = [kind |-> "state", value |-> loadState(stateFile)]
  /\ UnchangedFiles
  /\ UNCHANGED differVars

\* generateMigration committing the snapshot it diffed against
GenerateMigration_committing(currentEntities, name) ==
  \E now \in Instants :
    /\ call' = Call("generateMigration", currentEntities, NoMigration, name, "", "")
    /\ result' = generateMigrationResult(loadState(stateFile), currentEntities,
                                         name, now)
    /\ WriteState(saveMigrationState(loadState(stateFile), currentEntities))
    /\ UNCHANGED migrationsDir
    /\ UNCHANGED differVars

GenerateMigration(currentEntities, name) ==
  \E now \in Instants :
    /\ call' = Call("generateMigration", currentEntities, NoMigration, name, "", "")
    /\ result' = generateMigrationResult(loadState(stateFile), currentEntities,
                                         name, now)
    /\ UnchangedFiles
    /\ UNCHANGED differVars

SaveMigration(migration, currentEntities) ==
  /\ call' = Call("saveMigration", currentEntities, migration, <<>>, "", "")
  /\ migrationsDir' = [exists |-> TRUE,
                       files |-> migrationsDir.files
                                   \cup {migrationFileName(migration)}]
  /\ WriteState(saveMigrationState(loadState(stateFile), currentEntities))
  /\ result' = [kind |-> "path", value |-> migrationFileName(migration)]
  /\ UNCHANGED differVars

RecordApplied(name, direction, content) ==
  /\ Len(loadState(stateFile).history) < MaxHistory
  /\ call' = Call("recordApplied", <<>>, NoMigration, name, direction, content)
  /\ WriteState(recordAppliedState(loadState(stateFile), name, direction, content))
  /\ result' = [kind |-> "void", value |-> <<>>]
  /\ UNCHANGED migrationsDir
  /\ UNCHANGED differVars

GetPendingMigrations ==
  /\ call' = NoArguments("getPendingMigrations")
  /\ result' = [kind |-> "pending",
                value |-> getPendingMigrations(migrationsDir, stateFile)]
  /\ UnchangedFiles
  /\ UNCHANGED differVars

GetStatus ==
  /\ call' = NoArguments("getStatus")
  /\ result' = [kind |-> "status",
                value |-> getStatus(migrationsDir, stateFile)]
  /\ UnchangedFiles
  /\ UNCHANGED differVars

Baseline(entities) ==
  /\ Len(loadState(stateFile).history) < MaxHistory
  /\ call' = Call("baseline", entities, NoMigration, <<>>, "", "")
  /\ WriteState(baselineState(loadState(stateFile), entities))
  /\ result' = [kind |-> "void", value |-> <<>>]
  /\ UNCHANGED migrationsDir
  /\ UNCHANGED differVars

\* The constructor touches no file: the graph directory may or may not
\* exist, and a migrations directory may hold files the manager did not write.
Init ==
  /\ graphDirExists \in BOOLEAN
  /\ stateFile = AbsentFile
  /\ migrationsDir \in
       IF graphDirExists
       THEN {NoDir, [exists |-> TRUE, files |-> ForeignFiles]}
       ELSE {NoDir}
  /\ call = NoArguments("constructor")
  /\ result = [kind |-> "none", value |-> <<>>]
  /\ diffOld = <<>>
  /\ diffNew = <<>>
  /\ diffResult = NoDiff
  /\ generatorDialect = "postgresql"
  /\ migrationOutput = NoOutput

Next ==
  \/ LoadState
  \/ \E E \in ManagerEntityLists, n \in NameArguments : GenerateMigration(E, n)
  \/ \E m \in GeneratedMigrations, E \in ManagerEntityLists : SaveMigration(m, E)
  \/ \E n \in MigrationNames, d \in Directions, c \in Contents : RecordApplied(n, d, c)
  \/ GetPendingMigrations
  \/ GetStatus
  \/ \E E \in ManagerEntityLists : Baseline(E)

Spec == Init /\ [][Next]_vars

(***************************************************************************)
(* The differ as a function of its two inputs                              *)
(***************************************************************************)
RunDiff ==
  /\ ~diffResult.done
  /\ diffResult' = [done |-> TRUE] @@ diffEntities(diffOld, diffNew)
  /\ UNCHANGED <<diffOld, diffNew, generatorDialect, migrationOutput>>
  /\ UNCHANGED managerVars

\* the DiffResult as diffEntities returned it
DiffResultOf(r) ==
  [changes |-> r.changes, hasBreakingChanges |-> r.hasBreakingChanges,
   summary |-> r.summary]

\* generateMigration(diff, newEntities, dialect), as the manager and the
\* tests call it: on the diff just computed and the new entity list
RunGenerate ==
  /\ diffResult.done
  /\ ~migrationOutput.done
  /\ \E d \in SqlDialects :
       /\ generatorDialect' = d
       /\ migrationOutput' =
            [done |-> TRUE] @@ generateMigration(DiffResultOf(diffResult), diffNew, d)
  /\ UNCHANGED <<diffOld, diffNew, diffResult>>
  /\ UNCHANGED managerVars

InitDiff ==
  /\ graphDirExists = TRUE
  /\ stateFile = AbsentFile
  /\ migrationsDir = NoDir
  /\ call = NoArguments("constructor")
  /\ result = [kind |-> "none", value |-> <<>>]
  /\ \E input \in DiffInputs : diffOld = input[1] /\ diffNew = input[2]
  /\ diffResult = NoDiff
  /\ generatorDialect = "postgresql"
  /\ migrationOutput = NoOutput

NextDiff == RunDiff \/ RunGenerate

SpecDiff == InitDiff /\ [][NextDiff]_vars

(***************************************************************************)
(* loadState against every state file it may find                          *)
(***************************************************************************)
InitLoad ==
  /\ stateFile \in StateFiles
  /\ graphDirExists = TRUE
  /\ migrationsDir = NoDir
  /\ call = NoArguments("constructor")
  /\ result = [kind |-> "none", value |-> <<>>]
  /\ diffOld = <<>>
  /\ diffNew = <<>>
  /\ diffResult = NoDiff
  /\ generatorDialect = "postgresql"
  /\ migrationOutput = NoOutput

NextLoad == LoadState

SpecLoad == InitLoad /\ [][NextLoad]_vars

(***************************************************************************)
(* The manager on a state file that may be cut short between its calls     *)
(***************************************************************************)
\* The state file is cut short by something other than the manager: what
\* is left of its text no longer parses.
CorruptStateFile ==
  /\ stateFile.kind = "valid"
  /\ stateFile' = CorruptFile(JsonParseState(stateFile.content))
  /\ UNCHANGED <<graphDirExists, migrationsDir, call, result>>
  /\ UNCHANGED differVars

\* entity lists with an entity in them
NonEmptyEntityLists == {E \in ManagerEntityLists : E # <<>>}

\* The manager is constructed over a state file that holds a snapshot and
\* a history.
InitCorrupt ==
  /\ graphDirExists = TRUE
  /\ stateFile \in {saveState(st) :
                      st \in {s \in StoredStates : /\ s.lastSnapshot # <<>>
                                                   /\ Len(s.history) = 1}}
  /\ migrationsDir = NoDir
  /\ call = NoArguments("constructor")
  /\ result = [kind |-> "none", value |-> <<>>]
  /\ diffOld = <<>>
  /\ diffNew = <<>>
  /\ diffResult = NoDiff
  /\ generatorDialect = "postgresql"
  /\ migrationOutput = NoOutput

NextCorrupt ==
  \/ CorruptStateFile
  \/ \E E \in NonEmptyEntityLists : Baseline(E)
  \/ \E n \in MigrationNames, d \in Directions, c \in Contents : RecordApplied(n, d, c)
  \/ \E m \in GeneratedMigrations, E \in NonEmptyEntityLists : SaveMigration(m, E)
  \/ \E E \in NonEmptyEntityLists : GenerateMigration(E, <<>>)

SpecCorrupt == InitCorrupt /\ [][NextCorrupt]_vars

(***************************************************************************)
(* The manager when a file operation of saveMigration fails                *)
(***************************************************************************)
\* The awaited calls of saveMigration that may reject, in the order of the
\* code: mkdir (line 135), writeFile of the migration (line 141), and the
\* writeFile of saveState (lines 146 and 96).
FailingSteps == {"mkdir", "writeFile", "saveState"}

\* saveMigration with the state written before the migration file
stateFilesAfterFailure_stateFirst(file, step, currentEntities) ==
  {saveState(saveMigrationState(loadState(file), currentEntities))}

\* What the state file may be once saveMigration has thrown at the step.
\* Nothing has touched it before saveState runs.  writeFile is a whole-file
\* overwrite: when it rejects, the file is as it was or holds the new text
\* cut short.
stateFilesAfterFailure(file, step, currentEntities) ==
  IF step = "saveState"
  THEN {file,
        CorruptFile(saveMigrationState(loadState(file), currentEntities))}
  ELSE {file}

\* What the migrations directory may be once saveMigration has thrown at
\* the step: mkdir is called only when the directory is missing, and a
\* rejected writeFile may leave the file, cut short, behind.
migrationsDirsAfterFailure(dir, step, migration) ==
  LET written == [exists |-> TRUE,
                  files |-> dir.files \cup {migrationFileName(migration)}]
  IN CASE step = "mkdir" -> {dir}
       [] step = "writeFile" -> {[exists |-> TRUE, files |-> dir.files], written}
       [] step = "saveState" -> {written}

\* saveMigration, lines 130-150, when one of its awaited file operations
\* rejects: nothing catches the error
SaveMigrationFails(migration, currentEntities) ==
  \E step \in FailingSteps :
    /\ step = "mkdir" => ~migrationsDir.exists
    /\ call' = Call("saveMigration", currentEntities, migration, <<>>, "", "")
    /\ result' = [kind |-> "throws", value |-> step]
    /\ migrationsDir' \in migrationsDirsAfterFailure(migrationsDir, step, migration)
    /\ stateFile' \in stateFilesAfterFailure(stateFile, step, currentEntities)
    /\ graphDirExists' = (graphDirExists \/ migrationsDir'.exists)
    /\ UNCHANGED differVars

NextFailing ==
  \/ \E m \in GeneratedMigrations, E \in ManagerEntityLists : SaveMigrationFails(m, E)
  \/ \E m \in GeneratedMigrations, E \in ManagerEntityLists : SaveMigration(m, E)
  \/ \E E \in ManagerEntityLists : GenerateMigration(E, <<"add_users">>)
  \/ \E E \in ManagerEntityLists : Baseline(E)

SpecFailing == Init /\ [][NextFailing]_vars

(***************************************************************************)
(* The manager of each dialect on entities that differ by their relations  *)
(***************************************************************************)
UserLinked == Entity("User", <<IdField>>, <<PostsRelation>>)
UserV2Linked == Entity("User", <<IdField, EmailField>>, <<PostsRelation>>)

RelationEntityLists == {<<UserV1>>, <<UserLinked>>, <<UserV2Linked>>}

InitRelations ==
  /\ graphDirExists = TRUE
  /\ stateFile = AbsentFile
  /\ migrationsDir = NoDir
  /\ call = NoArguments("constructor")
  /\ result = [kind |-> "none", value |-> <<>>]
  /\ diffOld = <<>>
  /\ diffNew = <<>>
  /\ diffResult = NoDiff
  /\ generatorDialect \in SqlDialects
  /\ migrationOutput = NoOutput

NextRelations ==
  \/ \E E \in RelationEntityLists : Baseline(E)
  \/ \E E \in RelationEntityLists, n \in NameArguments : GenerateMigration(E, n)
  \/ \E m \in GeneratedMigrations, E \in RelationEntityLists : SaveMigration(m, E)

SpecRelations == InitRelations /\ [][NextRelations]_vars

(***************************************************************************)
(* C1: diffEntities(E, E) returns no change and hasBreakingChanges = false *)
(* for every entity list E.                                                *)
(***************************************************************************)
DiffIdempotent ==
  (diffResult.done /\ diffOld = diffNew)
    => (diffResult.changes = <<>> /\ diffResult.hasBreakingChanges = FALSE)

DiffIdempotentWitness ==
  /\ diffResult.done
  /\ diffOld = diffNew
  /\ Len(diffOld) = 2
  /\ diffOld[1].name = diffOld[2].name
  /\ \E i \in DOMAIN diffOld[2].fields : diffOld[2].fields[i].nullable = Undefined
  /\ diffOld[2].relations # <<>>

(***************************************************************************)
(* What the claims speak of                                                *)
(***************************************************************************)
\* the state a caller reads back: loadState() of the state file
Persisted == loadState(stateFile)

ReadOperations == {"loadState", "generateMigration", "getStatus", "getPendingMigrations"}

IsPrefix(s, t) == Len(s) <= Len(t) /\ SubSeq(t, 1, Len(s)) = s

\* generateMigration(entities) returns null in the given state, whatever
\* the name argument and the time
GeneratesNothing(state, entities) ==
  \A n \in NameArguments, now \in Instants :
    generateMigrationResult(state, entities, n, now) = Null

(***************************************************************************)
(* C2: generateMigration called with entities equal to the persisted       *)
(* lastSnapshot returns null, writes no migration file and leaves          *)
(* lastSnapshot and history as they are; the state being unchanged, a      *)
(* repeated call meets the same condition and gives the same result.       *)
(***************************************************************************)
NoOpGeneration ==
  [][(call'.op = "generateMigration"
        /\ call'.entities = loadState(stateFile).lastSnapshot)
      => /\ result' = Null
         /\ stateFile' = stateFile
         /\ migrationsDir' = migrationsDir]_vars

NoOpGenerationWitness ==
  /\ call.op = "generateMigration"
  /\ call.entities = Persisted.lastSnapshot
  /\ Len(call.entities) = 2
  /\ Persisted.history # <<>>
  /\ result = Null

(***************************************************************************)
(* C3: generateMigration (also when it returns a migration), loadState,    *)
(* getStatus and getPendingMigrations change neither the state file nor    *)
(* the migrations directory; the state file is changed only by baseline,   *)
(* saveMigration and recordApplied.                                        *)
(***************************************************************************)
PreviewSeparation ==
  [][/\ call'.op \in ReadOperations
          => /\ stateFile' = stateFile
             /\ migrationsDir' = migrationsDir
             /\ graphDirExists' = graphDirExists
     /\ stateFile' # stateFile
          => call'.op \in {"baseline", "saveMigration", "recordApplied"}]_vars

PreviewSeparationWitness ==
  /\ call.op = "generateMigration"
  /\ result.kind = "migration"
  /\ Len(result.value.diff.changes) > 0
  /\ stateFile.kind = "valid"
  /\ Persisted.lastSnapshot # call.entities

(***************************************************************************)
(* C4: after saveMigration(m, E) the file <m.timestamp>_<m.name>.sql is in *)
(* the migrations directory, which exists; the persisted lastSnapshot is   *)
(* E; the history is what it was; and generateMigration(E) returns null.   *)
(***************************************************************************)
SaveCommits ==
  [][call'.op = "saveMigration"
      => /\ migrationsDir'.exists
         /\ migrationFileName(call'.migration) \in migrationsDir'.files
         /\ loadState(stateFile').lastSnapshot = call'.entities
         /\ loadState(stateFile').history = loadState(stateFile).history
         /\ GeneratesNothing(loadState(stateFile'), call'.entities)]_vars

SaveCommitsWitness ==
  /\ call.op = "saveMigration"
  /\ Persisted.lastSnapshot = call.entities
  /\ Len(call.entities) = 2
  /\ Len(Persisted.history) = 2
  /\ migrationFileName(call.migration) \in migrationsDir.files

(***************************************************************************)
(* C5, as claimed: every step that changes the persisted lastSnapshot is a *)
(* saveMigration step.                                                     *)
(***************************************************************************)
OnlySaveMigrationAdvancesSnapshot ==
  [][loadState(stateFile').lastSnapshot # loadState(stateFile).lastSnapshot
      => call'.op = "saveMigration"]_vars

(***************************************************************************)
(* C5, amended: every step that changes the persisted lastSnapshot is a    *)
(* saveMigration step or a baseline step.                                  *)
(***************************************************************************)
OnlySaveOrBaselineAdvancesSnapshot ==
  [][loadState(stateFile').lastSnapshot # loadState(stateFile).lastSnapshot
      => call'.op \in {"saveMigration", "baseline"}]_vars

OnlySaveOrBaselineAdvancesSnapshotWitness ==
  /\ call.op = "baseline"
  /\ Persisted.lastSnapshot = call.entities
  /\ Len(Persisted.history) = 2
  /\ Persisted.history[1].name = <<"baseline">>
  /\ Persisted.history[1].hash # Persisted.history[2].hash

(***************************************************************************)
(* C6: the history after each operation has the history before it as a     *)
(* prefix; baseline and recordApplied append exactly one record, every     *)
(* other operation leaves the history as it was.                           *)
(***************************************************************************)
HistoryAppendOnly ==
  [][LET before == loadState(stateFile).history
         after == loadState(stateFile').history
     IN /\ IsPrefix(before, after)
        /\ call'.op \in {"baseline", "recordApplied"}
             => Len(after) = Len(before) + 1
        /\ call'.op \notin {"baseline", "recordApplied"}
             => after = before]_vars

HistoryAppendOnlyWitness ==
  /\ call.op = "recordApplied"
  /\ Len(Persisted.history) = 2
  /\ Persisted.history[1].name = <<"baseline">>
  /\ Persisted.history[2].name = call.name
  /\ Persisted.history[2].direction = "down"

(***************************************************************************)
(* C7: baseline(E) sets lastSnapshot to E and appends one record named     *)
(* "baseline" with direction "up" after the records already there;         *)
(* afterwards generateMigration(E) returns null.                           *)
(***************************************************************************)
BaselineSetsSnapshot ==
  [][call'.op = "baseline"
      => LET before == loadState(stateFile)
             after == loadState(stateFile')
         IN /\ after.lastSnapshot = call'.entities
            /\ Len(after.history) = Len(before.history) + 1
            /\ SubSeq(after.history, 1, Len(before.history)) = before.history
            /\ after.history[Len(after.history)].name = <<"baseline">>
            /\ after.history[Len(after.history)].direction = "up"
            /\ GeneratesNothing(after, call'.entities)]_vars

BaselineSetsSnapshotWitness ==
  /\ call.op = "baseline"
  /\ Len(call.entities) = 2
  /\ Persisted.lastSnapshot = call.entities
  /\ Len(Persisted.history) = 2
  /\ Persisted.history[1].name = <<"add_users">>
  /\ Persisted.history[2].name = <<"baseline">>
  /\ migrationsDir.files # {}

\* The logical name of a ".sql" file: its name without the timestamp prefix
\* and without the extension.
LogicalName(f) ==
  LET rest == stripTimestampPrefix(f) IN SubSeq(rest, 1, Len(rest) - 1)

(***************************************************************************)
(* C8, as claimed: getPendingMigrations returns exactly the logical names  *)
(* (timestamp prefix and ".sql" extension stripped) of the ".sql" files of *)
(* the migrations directory that occur in no history record with direction *)
(* "up", and nothing when the directory does not exist.                    *)
(***************************************************************************)
PendingAreTheUnappliedFiles ==
  call.op = "getPendingMigrations"
    => LET upNames == {Persisted.history[i].name :
                         i \in {k \in DOMAIN Persisted.history :
                                  Persisted.history[k].direction = "up"}}
           expected == IF migrationsDir.exists
                       THEN {LogicalName(f) :
                               f \in {g \in migrationsDir.files : endsWithSql(g)}}
                              \ upNames
                       ELSE {}
       IN {result.value[i] : i \in DOMAIN result.value} = expected

(***************************************************************************)
(* C9: getStatus reports the number of entities of lastSnapshot, the       *)
(* number of history records with direction "up", the length of            *)
(* getPendingMigrations() and the last history record whatever its         *)
(* direction (none when the history is empty), and changes nothing.        *)
(***************************************************************************)
StatusReports ==
  [][call'.op = "getStatus"
      => LET state == loadState(stateFile)
             status == result'.value
         IN /\ status.lastSnapshotEntities = Len(state.lastSnapshot)
            /\ status.appliedCount =
                 Cardinality({i \in DOMAIN state.history :
                                state.history[i].direction = "up"})
            /\ status.pendingCount =
                 Len(getPendingMigrations(migrationsDir, stateFile))
            /\ status.lastApplied =
                 IF state.history = <<>> THEN <<>>
                 ELSE <<state.history[Len(state.history)]>>
            /\ stateFile' = stateFile
            /\ migrationsDir' = migrationsDir
            /\ graphDirExists' = graphDirExists]_vars

StatusReportsWitness ==
  /\ call.op = "getStatus"
  /\ result.value.lastSnapshotEntities = 2
  /\ Len(Persisted.history) = 2
  /\ Persisted.history[1].name = <<"baseline">>
  /\ Persisted.history[2].direction = "down"
  /\ result.value.appliedCount = 1
  /\ result.value.pendingCount >= 1
  /\ result.value.lastApplied = <<Persisted.history[2]>>

(***************************************************************************)
(* C10, as claimed: getStatus().hasSnapshot is true if and only if         *)
(* baseline() has been called, that is, a history record named "baseline"  *)
(* exists.                                                                 *)
(***************************************************************************)
HasSnapshotIffBaselined ==
  call.op = "getStatus"
    => (result.value.hasSnapshot
          <=> \E i \in DOMAIN Persisted.history :
                Persisted.history[i].name = <<"baseline">>)


(***************************************************************************)
(* C11: loadState never throws and never writes.  On an absent file, and   *)
(* on a file that exists but is unreadable or not valid JSON, it returns   *)
(* the fresh state {version: 1, lastSnapshot: [], history: []}; on a file  *)
(* holding a valid state it returns that state.  In each case the state    *)
(* file, the graph directory and the migrations directory are unchanged.   *)
(***************************************************************************)
LoadStateTotal ==
  [][call'.op = "loadState"
       => /\ result'.kind = "state"
          /\ stateFile.kind \in {"absent", "corrupt", "unreadable"}
               => result'.value = FreshState
          /\ stateFile.kind = "valid"
               => \E st \in StoredStates :
                     stateFile = saveState(st) /\ result'.value = st
          /\ UNCHANGED <<graphDirExists, stateFile, migrationsDir>>]_vars

LoadStateTotalWitness ==
  /\ call.op = "loadState"
  /\ stateFile.kind = "corrupt"
  /\ stateFile.content.history # <<>>
  /\ stateFile.content.lastSnapshot # <<>>
  /\ result.kind = "state"
  /\ result.value = FreshState


(***************************************************************************)
(* What the differ claims speak of                                         *)
(***************************************************************************)
\* the names of the entities of a list, and of the fields of a field list
NamesOf(s) == {s[i].name : i \in DOMAIN s}

\* the elements of s called name
Named(s, name) == {i \in DOMAIN s : s[i].name = name}

\* the positions in the returned change list of the changes of one type
\* about one entity and one field
ChangesAbout(type, entity, field) ==
  {k \in DOMAIN diffResult.changes :
     /\ diffResult.changes[k].type = type
     /\ diffResult.changes[k].entity = entity
     /\ diffResult.changes[k].field = field}

\* one entity of each name in old and in new, the two of the same name
SameSingleEntity ==
  /\ Len(diffOld) = 1
  /\ Len(diffNew) = 1
  /\ diffOld[1].name = diffNew[1].name

\* the generator warned about adding the column entity.field
WarnedAddedField(entity, field) ==
  \E w \in DOMAIN migrationOutput.warnings :
    /\ migrationOutput.warnings[w][1] = "Adding non-nullable column"
    /\ migrationOutput.warnings[w][2] = entity
    /\ migrationOutput.warnings[w][4] = field

(***************************************************************************)
(* C12: for every pair of entity lists, diffEntities returns               *)
(* hasBreakingChanges = true if and only if at least one returned change   *)
(* has breaking = true, and generateMigration on that diff returns         *)
(* hasDestructiveChanges equal to that value, in every dialect.            *)
(***************************************************************************)
BreakingFlagDerived ==
  /\ diffResult.done
       => (diffResult.hasBreakingChanges
             <=> \E k \in DOMAIN diffResult.changes : diffResult.changes[k].breaking)
  /\ migrationOutput.done
       => (migrationOutput.hasDestructiveChanges
             <=> \E k \in DOMAIN diffResult.changes : diffResult.changes[k].breaking)

\* a removed relation: a breaking change the generator emits nothing for
BreakingFlagDerivedWitness ==
  /\ migrationOutput.done
  /\ generatorDialect = "sqlite"
  /\ migrationOutput.hasDestructiveChanges
  /\ migrationOutput.warnings = <<>>
  /\ \E k \in DOMAIN diffResult.changes :
       diffResult.changes[k].type = "relation_removed"

(***************************************************************************)
(* C13: for an entity present in both old and new, a field present only in *)
(* new yields one field_added change, breaking exactly when the field is   *)
(* not nullable (nullable false or unset) and has no default; the          *)
(* generator warns about that column exactly when the change is breaking.  *)
(***************************************************************************)
AddedFieldClassified ==
  (diffResult.done /\ SameSingleEntity)
    => \A i \in DOMAIN diffNew[1].fields :
         LET f == diffNew[1].fields[i]
             about == ChangesAbout("field_added", diffNew[1].name, f.name)
         IN (/\ f.name \notin NamesOf(diffOld[1].fields)
             /\ Cardinality(Named(diffNew[1].fields, f.name)) = 1)
            => /\ Cardinality(about) = 1
               /\ \A k \in about :
                    /\ diffResult.changes[k].newValue = f
                    /\ diffResult.changes[k].breaking
                         <=> (f.nullable # "true" /\ f.default = Undefined)
               /\ migrationOutput.done
                    => (WarnedAddedField(diffNew[1].name, f.name)
                          <=> (f.nullable # "true" /\ f.default = Undefined))

\* a field whose nullable is unset and that has no default: breaking, warned
AddedFieldClassifiedWitness ==
  /\ migrationOutput.done
  /\ SameSingleEntity
  /\ \E i \in DOMAIN diffNew[1].fields :
       /\ diffNew[1].fields[i].name \notin NamesOf(diffOld[1].fields)
       /\ diffNew[1].fields[i].nullable = Undefined
       /\ diffNew[1].fields[i].default = Undefined
       /\ WarnedAddedField(diffNew[1].name, diffNew[1].fields[i].name)


(***************************************************************************)
(* Entities only in new                                                    *)
(***************************************************************************)
\* the entities of new, of a name that is theirs alone, that old has not
NewOnlyEntities ==
  {i \in DOMAIN diffNew :
     /\ diffNew[i].name \notin NamesOf(diffOld)
     /\ Cardinality(Named(diffNew, diffNew[i].name)) = 1}

\* the changes about one entity, of one type
EntityChanges(type, entity) ==
  {k \in DOMAIN diffResult.changes :
     /\ diffResult.changes[k].type = type
     /\ diffResult.changes[k].entity = entity}

\* one entity_added change (not breaking) for e, followed by one
\* field_added change per field of e, in field order
ListedAsAdded(e) ==
  /\ Cardinality(EntityChanges("entity_added", e.name)) = 1
  /\ Cardinality(EntityChanges("field_added", e.name)) = Len(e.fields)
  /\ \A k \in EntityChanges("entity_added", e.name) :
       /\ ~diffResult.changes[k].breaking
       /\ \A j \in DOMAIN e.fields :
            /\ k + j \in DOMAIN diffResult.changes
            /\ diffResult.changes[k + j].type = "field_added"
            /\ diffResult.changes[k + j].entity = e.name
            /\ diffResult.changes[k + j].field = e.fields[j].name
            /\ diffResult.changes[k + j].newValue = e.fields[j]

(***************************************************************************)
(* C14, as claimed: an entity only in new yields one entity_added change   *)
(* (not breaking) followed by one field_added change per field, and each   *)
(* of these field_added changes is breaking if and only if its field is    *)
(* not nullable and has no default.                                        *)
(***************************************************************************)
NewEntityFieldsClassified ==
  diffResult.done
    => \A i \in NewOnlyEntities :
         /\ ListedAsAdded(diffNew[i])
         /\ \A k \in EntityChanges("field_added", diffNew[i].name) :
              diffResult.changes[k].breaking
                <=> (/\ diffResult.changes[k].newValue.nullable # "true"
                     /\ diffResult.changes[k].newValue.default = Undefined)

(***************************************************************************)
(* C14, amended: an entity only in new yields one entity_added change (not *)
(* breaking) followed by one field_added change per field, and none of     *)
(* these field_added changes is breaking, whatever the nullability and the *)
(* default of the field.                                                   *)
(***************************************************************************)
NewEntityFieldsNotBreaking ==
  diffResult.done
    => \A i \in NewOnlyEntities :
         /\ ListedAsAdded(diffNew[i])
         /\ \A k \in EntityChanges("field_added", diffNew[i].name) :
              ~diffResult.changes[k].breaking

\* a new entity with a field that is not nullable and has no default
NewEntityFieldsNotBreakingWitness ==
  /\ diffResult.done
  /\ diffOld # <<>>
  /\ \E i \in NewOnlyEntities :
       \E j \in DOMAIN diffNew[i].fields :
         /\ ~diffNew[i].fields[j].primary
         /\ diffNew[i].fields[j].nullable = "false"
         /\ diffNew[i].fields[j].default = Undefined
         /\ \E k \in EntityChanges("field_added", diffNew[i].name) :
              /\ diffResult.changes[k].newValue = diffNew[i].fields[j]
              /\ ~diffResult.changes[k].breaking

\* new is old with more entities, of names old has not, put anywhere
OnlyAddsEntities ==
  /\ Len(diffNew) > Len(diffOld)
  /\ SelectSeq(diffNew, LAMBDA e : e.name \in NamesOf(diffOld)) = diffOld

(***************************************************************************)
(* C15: when new differs from old only by additional entities, whatever    *)
(* the nullability and defaults of their fields, diffEntities returns      *)
(* hasBreakingChanges = false and generateMigration returns                *)
(* hasDestructiveChanges = false and an empty warnings list.               *)
(***************************************************************************)
AddingEntitiesIsSafe ==
  OnlyAddsEntities
    => /\ diffResult.done
            => /\ ~diffResult.hasBreakingChanges
               /\ \A k \in DOMAIN diffResult.changes : ~diffResult.changes[k].breaking
       /\ migrationOutput.done
            => /\ ~migrationOutput.hasDestructiveChanges
               /\ migrationOutput.warnings = <<>>

AddingEntitiesIsSafeWitness ==
  /\ OnlyAddsEntities
  /\ migrationOutput.done
  /\ generatorDialect = "mysql"
  /\ diffOld # <<>>
  /\ diffNew[1].name = "Post"
  /\ diffNew[1].fields[1].nullable = Undefined
  /\ diffNew[1].fields[1].default = Undefined
  /\ ~diffNew[1].fields[1].primary
  /\ migrationOutput.up # <<>>


(***************************************************************************)
(* Fields present in both versions of an entity                            *)
(***************************************************************************)
\* the pairs <<i, j>> of a field of old and the field of new of the same
\* name, when the name is used once on each side
KeptFields ==
  {p \in (DOMAIN diffOld[1].fields) \X (DOMAIN diffNew[1].fields) :
     /\ diffOld[1].fields[p[1]].name = diffNew[1].fields[p[2]].name
     /\ Cardinality(Named(diffOld[1].fields, diffOld[1].fields[p[1]].name)) = 1
     /\ Cardinality(Named(diffNew[1].fields, diffNew[1].fields[p[2]].name)) = 1}

(***************************************************************************)
(* C16: for a field present in both versions whose type differs,           *)
(* diffEntities yields one field_type_changed change with oldValue and     *)
(* newValue the old and the new type; it is not breaking exactly for       *)
(* string -> text and integer -> decimal, and breaking for every other     *)
(* ordered pair of distinct types, text -> string and decimal -> integer   *)
(* included.                                                               *)
(***************************************************************************)
TypeChangeClassified ==
  (diffResult.done /\ SameSingleEntity)
    => \A p \in KeptFields :
         LET old == diffOld[1].fields[p[1]]
             new == diffNew[1].fields[p[2]]
             about == ChangesAbout("field_type_changed", diffNew[1].name, new.name)
         IN IF old.type = new.type
            THEN about = {}
            ELSE /\ Cardinality(about) = 1
                 /\ \A k \in about :
                      /\ diffResult.changes[k].oldValue = old.type
                      /\ diffResult.changes[k].newValue = new.type
                      /\ ~diffResult.changes[k].breaking
                           <=> <<old.type, new.type>> \in
                                 {<<"string", "text">>, <<"integer", "decimal">>}

\* the reverse of a safe widening: decimal -> integer, breaking
TypeChangeClassifiedWitness ==
  /\ diffResult.done
  /\ SameSingleEntity
  /\ \E k \in DOMAIN diffResult.changes :
       /\ diffResult.changes[k].type = "field_type_changed"
       /\ diffResult.changes[k].oldValue = "decimal"
       /\ diffResult.changes[k].newValue = "integer"
       /\ diffResult.changes[k].breaking

(***************************************************************************)
(* C17: for a field present in both versions, a field_nullable_changed     *)
(* change is produced exactly when the nullable flags differ (over true,   *)
(* false and unset); it is breaking if and only if old.nullable is true    *)
(* and new.nullable is not true.  Unset -> false, false -> true and        *)
(* unset -> true are reported and not breaking.                            *)
(***************************************************************************)
NullableChangeClassified ==
  (diffResult.done /\ SameSingleEntity)
    => \A p \in KeptFields :
         LET old == diffOld[1].fields[p[1]]
             new == diffNew[1].fields[p[2]]
             about == ChangesAbout("field_nullable_changed", diffNew[1].name,
                                   new.name)
         IN IF old.nullable = new.nullable
            THEN about = {}
            ELSE /\ Cardinality(about) = 1
                 /\ \A k \in about :
                      /\ diffResult.changes[k].oldValue = old.nullable
                      /\ diffResult.changes[k].newValue = new.nullable
                      /\ diffResult.changes[k].breaking
                           <=> (old.nullable = "true" /\ new.nullable # "true")

\* true -> unset: reported and breaking
NullableChangeClassifiedWitness ==
  /\ diffResult.done
  /\ SameSingleEntity
  /\ \E k \in DOMAIN diffResult.changes :
       /\ diffResult.changes[k].type = "field_nullable_changed"
       /\ diffResult.changes[k].oldValue = "true"
       /\ diffResult.changes[k].newValue = Undefined
       /\ diffResult.changes[k].breaking

(***************************************************************************)
(* C18: every entity_removed, field_removed and relation_removed change    *)
(* has breaking = true, and every entity_added, relation_added and         *)
(* field_default_changed change has breaking = false, for all inputs.      *)
(***************************************************************************)
FixedClassification ==
  diffResult.done
    => \A k \in DOMAIN diffResult.changes :
         /\ diffResult.changes[k].type \in
               {"entity_removed", "field_removed", "relation_removed"}
              => diffResult.changes[k].breaking
         /\ diffResult.changes[k].type \in
               {"entity_added", "relation_added", "field_default_changed"}
              => ~diffResult.changes[k].breaking

\* one diff with a removed relation and a changed default
FixedClassificationWitness ==
  /\ diffResult.done
  /\ \E k \in DOMAIN diffResult.changes :
       diffResult.changes[k].type = "relation_removed"
  /\ \E k \in DOMAIN diffResult.changes :
       diffResult.changes[k].type = "field_default_changed"


(***************************************************************************)
(* C19, as claimed: two changes produced by diffEntities that have the     *)
(* same type, the same oldValue and the same newValue have the same        *)
(* breaking flag; whether the owning entity is new or existed has no       *)
(* influence.                                                              *)
(***************************************************************************)
BreakingDependsOnTypeAndValues ==
  diffResult.done
    => \A k1, k2 \in DOMAIN diffResult.changes :
         (/\ diffResult.changes[k1].type = diffResult.changes[k2].type
          /\ diffResult.changes[k1].oldValue = diffResult.changes[k2].oldValue
          /\ diffResult.changes[k1].newValue = diffResult.changes[k2].newValue)
           => diffResult.changes[k1].breaking = diffResult.changes[k2].breaking

\* The breaking flag as a function of the type of a change, its oldValue,
\* its newValue and whether the entity it is about is new.
BreakingOf(type, oldValue, newValue, entityIsNew) ==
  CASE type \in {"entity_removed", "field_removed", "relation_removed"} -> TRUE
    [] type \in {"entity_added", "relation_added", "field_default_changed"} -> FALSE
    [] type = "field_added" ->
         /\ ~entityIsNew
         /\ newValue.nullable # "true"
         /\ newValue.default = Undefined
    [] type = "field_type_changed" ->
         <<oldValue, newValue>> \notin
           {<<"string", "text">>, <<"integer", "decimal">>}
    [] type = "field_nullable_changed" ->
         oldValue = "true" /\ newValue # "true"

(***************************************************************************)
(* C19, amended: the breaking flag of every change produced by             *)
(* diffEntities, in whatever call, is one function of its type, its        *)
(* oldValue, its newValue and of whether the owning entity is newly added: *)
(* two changes that agree on these four have the same flag, and a          *)
(* field_added change for a field of a newly added entity is never         *)
(* breaking.                                                               *)
(***************************************************************************)
BreakingDependsOnTypeValuesAndOwner ==
  diffResult.done
    => \A k \in DOMAIN diffResult.changes :
         diffResult.changes[k].breaking
           = BreakingOf(diffResult.changes[k].type,
                        diffResult.changes[k].oldValue,
                        diffResult.changes[k].newValue,
                        diffResult.changes[k].entity \notin NamesOf(diffOld))

\* one call in which the same field is added to an entity that existed
\* (breaking) and comes with a new entity (not breaking)
BreakingDependsOnTypeValuesAndOwnerWitness ==
  /\ diffResult.done
  /\ \E k1, k2 \in DOMAIN diffResult.changes :
       /\ diffResult.changes[k1].type = "field_added"
       /\ diffResult.changes[k2].type = "field_added"
       /\ diffResult.changes[k1].newValue = diffResult.changes[k2].newValue
       /\ diffResult.changes[k1].entity \in NamesOf(diffOld)
       /\ diffResult.changes[k2].entity \notin NamesOf(diffOld)
       /\ diffResult.changes[k1].breaking
       /\ ~diffResult.changes[k2].breaking

\* the statements of a list that name one table after their first words
StatementsOn(statements, table) ==
  {k \in DOMAIN statements : statements[k][2] = table}

(***************************************************************************)
(* C20, as claimed: for a newly added entity the generator emits exactly   *)
(* one up statement, the CREATE TABLE, and one down statement, DROP TABLE  *)
(* IF EXISTS; the field_added changes of the new entity are skipped, so no *)
(* ALTER TABLE ... ADD COLUMN is emitted for its table.                    *)
(***************************************************************************)
NewEntityCreatesTableOnly ==
  migrationOutput.done
    => \A i \in NewOnlyEntities :
         LET table == entityToTableName(diffNew[i].name)
             ups == StatementsOn(migrationOutput.up, table)
             downs == StatementsOn(migrationOutput.down, table)
         IN /\ Cardinality(ups) = 1
            /\ \A k \in ups : migrationOutput.up[k][1] = "CREATE TABLE"
            /\ Cardinality(downs) = 1
            /\ \A k \in downs : migrationOutput.down[k][1] = "DROP TABLE IF EXISTS"

(***************************************************************************)
(* What the generator claims speak of                                      *)
(***************************************************************************)
\* the changes of one type in the diff handed to the generator
ChangesOfType(type) ==
  {k \in DOMAIN diffResult.changes : diffResult.changes[k].type = type}

\* a statement is a comment line: it starts with "--"
IsComment(statement) == statement[1] = "--"

\* the positions of a list of statements or warnings that hold a given one
Holding(list, item) == {k \in DOMAIN list : list[k] = item}

(***************************************************************************)
(* C21: for every entity_removed and every field_removed change, in every  *)
(* dialect, the generator adds a DROP TABLE IF EXISTS / ALTER TABLE ...    *)
(* DROP COLUMN statement to up, a comment placeholder (a line starting     *)
(* with "--") to down, pushes one warning, and the output has              *)
(* hasDestructiveChanges = true.                                           *)
(***************************************************************************)
IrreversibleChanges ==
  migrationOutput.done
    => /\ \A k \in ChangesOfType("entity_removed") :
            LET table == entityToTableName(diffResult.changes[k].entity)
            IN /\ Holding(migrationOutput.up,
                          <<"DROP TABLE IF EXISTS", table, ";">>) # {}
               /\ \E d \in DOMAIN migrationOutput.down :
                    /\ IsComment(migrationOutput.down[d])
                    /\ migrationOutput.down[d]
                         = <<"--", "Cannot recreate dropped table", table>>
               /\ Cardinality(Holding(migrationOutput.warnings,
                    <<"Dropping table", table, "- this will DELETE ALL DATA!">>)) = 1
               /\ migrationOutput.hasDestructiveChanges
       /\ \A k \in ChangesOfType("field_removed") :
            LET entity == diffResult.changes[k].entity
                field == diffResult.changes[k].field
            IN /\ Holding(migrationOutput.up,
                          <<"ALTER TABLE", entityToTableName(entity), "DROP COLUMN",
                            fieldToColumnName(field), ";">>) # {}
               /\ \E d \in DOMAIN migrationOutput.down :
                    /\ IsComment(migrationOutput.down[d])
                    /\ migrationOutput.down[d]
                         = <<"--", "Cannot recreate dropped column", entity, ".", field>>
               /\ Cardinality(Holding(migrationOutput.warnings,
                    <<"Dropping column", entity, ".", field,
                      "- this will DELETE COLUMN DATA!">>)) = 1
               /\ migrationOutput.hasDestructiveChanges

\* a removed entity under sqlite: one DROP TABLE in up, one comment in down
IrreversibleChangesWitness ==
  /\ migrationOutput.done
  /\ generatorDialect = "sqlite"
  /\ ChangesOfType("entity_removed") # {}
  /\ Len(migrationOutput.up) = Len(diffResult.changes)
  /\ \A d \in DOMAIN migrationOutput.down : IsComment(migrationOutput.down[d])

(***************************************************************************)
(* The place of a change in up and down, and the opposite diff             *)
(***************************************************************************)
\* the changes the generator emits a statement for, one in up and one in
\* down, when every entity and field they name is in the entity list
EmitsStatement(change) == change.type \notin {"relation_added", "relation_removed"}

\* the position in up and in down of the statement of the k-th change
StatementOf(changes, k) ==
  Cardinality({j \in 1..k : EmitsStatement(changes[j])})

\* diff(B, A) for the diff(A, B) at hand, and what the generator makes of it
OppositeDiff == diffEntities(diffNew, diffOld)
OppositeOutput == generateMigration(OppositeDiff, diffOld, generatorDialect)

\* the type of the change that undoes a change of a given type
OppositeType(type) == IF type = "field_added" THEN "field_removed" ELSE type

(***************************************************************************)
(* C22, as claimed: for entity lists A and B over the same entities and    *)
(* for each dialect, the down statement emitted for a field_added,         *)
(* field_type_changed, field_nullable_changed or field_default_changed     *)
(* change of diff(A, B) equals the up statement the generator emits for    *)
(* the opposite change in diff(B, A).                                      *)
(***************************************************************************)
DownIsUpOfOpposite ==
  (migrationOutput.done /\ NamesOf(diffOld) = NamesOf(diffNew))
    => \A k \in DOMAIN diffResult.changes :
         LET change == diffResult.changes[k]
         IN change.type \in {"field_added", "field_type_changed",
                             "field_nullable_changed", "field_default_changed"}
            => \E r \in DOMAIN OppositeDiff.changes :
                 /\ OppositeDiff.changes[r].type = OppositeType(change.type)
                 /\ OppositeDiff.changes[r].entity = change.entity
                 /\ OppositeDiff.changes[r].field = change.field
                 /\ migrationOutput.down[StatementOf(diffResult.changes, k)]
                      = OppositeOutput.up[StatementOf(OppositeDiff.changes, r)]

(***************************************************************************)
(* C23, as claimed: with dialect sqlite, every field_type_changed and      *)
(* field_nullable_changed change makes the generator emit an SQL comment   *)
(* instead of an ALTER statement, in up and in down, and the warnings list *)
(* is non-empty whenever such a comment was emitted.                       *)
(***************************************************************************)
SqliteGapSurfaced ==
  (migrationOutput.done /\ generatorDialect = "sqlite")
    => \A k \in ChangesOfType("field_type_changed")
                 \cup ChangesOfType("field_nullable_changed") :
         /\ IsComment(migrationOutput.up[StatementOf(diffResult.changes, k)])
         /\ IsComment(migrationOutput.down[StatementOf(diffResult.changes, k)])
         /\ migrationOutput.warnings # <<>>

\* a statement that can be executed: ALTER TABLE ..., not a comment
IsAlterTable(statement) == ~IsComment(statement) /\ statement[1] = "ALTER TABLE"

(***************************************************************************)
(* C24, as claimed: with dialect postgresql and with dialect mysql, every  *)
(* field_type_changed change and every field_nullable_changed change       *)
(* produces an executable ALTER TABLE statement (not a comment) in both up *)
(* and down.                                                               *)
(***************************************************************************)
TwoDialectsAlterInPlace ==
  (migrationOutput.done /\ generatorDialect \in {"postgresql", "mysql"})
    => \A k \in ChangesOfType("field_type_changed")
                 \cup ChangesOfType("field_nullable_changed") :
         /\ IsAlterTable(migrationOutput.up[StatementOf(diffResult.changes, k)])
         /\ IsAlterTable(migrationOutput.down[StatementOf(diffResult.changes, k)])

(***************************************************************************)
(* C24, amended: with dialect postgresql every field_type_changed and      *)
(* every field_nullable_changed change produces an executable ALTER TABLE  *)
(* statement in both up and down; with dialect mysql every                 *)
(* field_type_changed change does (ALTER TABLE ... MODIFY COLUMN), while   *)
(* every field_nullable_changed change produces an SQL comment in both up  *)
(* and down.                                                               *)
(***************************************************************************)
PostgresqlAltersInPlaceMysqlTypesOnly ==
  (migrationOutput.done /\ generatorDialect \in {"postgresql", "mysql"})
    => /\ \A k \in ChangesOfType("field_type_changed") :
            /\ IsAlterTable(migrationOutput.up[StatementOf(diffResult.changes, k)])
            /\ IsAlterTable(migrationOutput.down[StatementOf(diffResult.changes, k)])
       /\ \A k \in ChangesOfType("field_nullable_changed") :
            IF generatorDialect = "postgresql"
            THEN /\ IsAlterTable(migrationOutput.up[StatementOf(diffResult.changes, k)])
                 /\ IsAlterTable(migrationOutput.down[StatementOf(diffResult.changes, k)])
            ELSE /\ IsComment(migrationOutput.up[StatementOf(diffResult.changes, k)])
                 /\ IsComment(migrationOutput.down[StatementOf(diffResult.changes, k)])

\* mysql, a type change and a nullable change of the same field
PostgresqlAltersInPlaceMysqlTypesOnlyWitness ==
  /\ migrationOutput.done
  /\ generatorDialect = "mysql"
  /\ ChangesOfType("field_type_changed") # {}
  /\ ChangesOfType("field_nullable_changed") # {}
  /\ \E u \in DOMAIN migrationOutput.up : migrationOutput.up[u][3] = "MODIFY COLUMN"
  /\ \E u \in DOMAIN migrationOutput.up : IsComment(migrationOutput.up[u])

(***************************************************************************)
(* Reading a CREATE TABLE statement                                        *)
(***************************************************************************)
\* the pieces of a sequence between the separators ","
RECURSIVE ClausesOf(_)
ClausesOf(pieces) ==
  IF \E i \in DOMAIN pieces : pieces[i] = ","
  THEN LET c == CHOOSE i \in DOMAIN pieces :
                  pieces[i] = "," /\ \A j \in 1..(i - 1) : pieces[j] # ","
       IN <<SubSeq(pieces, 1, c - 1)>> \o ClausesOf(SubSeq(pieces, c + 1, Len(pieces)))
  ELSE <<pieces>>

\* the column clauses of a CREATE TABLE statement: what stands between
\* "CREATE TABLE <table> (" and ");"
ColumnClauses(statement) == ClausesOf(SubSeq(statement, 4, Len(statement) - 1))

PiecesOf(clause) == {clause[i] : i \in DOMAIN clause}

(***************************************************************************)
(* C26: for every entity and dialect the CREATE TABLE statement holds one  *)
(* column clause per field, in field order; the clause has PRIMARY KEY iff *)
(* the field is primary, NOT NULL iff the field is neither nullable nor    *)
(* primary, UNIQUE iff the field is unique and not primary, and a DEFAULT  *)
(* clause iff a default is set.  After the field clauses come exactly two  *)
(* audit columns, created_at and updated_at, and ON UPDATE                 *)
(* CURRENT_TIMESTAMP appears only for mysql.                               *)
(***************************************************************************)
CreateTableAssembly ==
  migrationOutput.done
    => \A i \in NewOnlyEntities :
         \E u \in DOMAIN migrationOutput.up :
           LET statement == migrationOutput.up[u]
               fields == diffNew[i].fields
               clauses == ColumnClauses(statement)
           IN /\ SubSeq(statement, 1, 3)
                   = <<"CREATE TABLE", entityToTableName(diffNew[i].name), "(">>
              /\ statement[Len(statement)] = ");"
              /\ Len(clauses) = Len(fields) + 2
              /\ \A j \in DOMAIN fields :
                   /\ clauses[j][1] = fieldToColumnName(fields[j].name)
                   /\ clauses[j][2] = fieldTypeToSql(fields[j].type, generatorDialect)
                   /\ "PRIMARY KEY" \in PiecesOf(clauses[j]) <=> fields[j].primary
                   /\ "NOT NULL" \in PiecesOf(clauses[j])
                        <=> (fields[j].nullable # "true" /\ ~fields[j].primary)
                   /\ "UNIQUE" \in PiecesOf(clauses[j])
                        <=> (fields[j].unique /\ ~fields[j].primary)
                   /\ "DEFAULT" \in PiecesOf(clauses[j])
                        <=> fields[j].default # Undefined
              /\ clauses[Len(fields) + 1][1] = "created_at"
              /\ clauses[Len(fields) + 2][1] = "updated_at"
              /\ (\E c \in DOMAIN clauses :
                    "ON UPDATE CURRENT_TIMESTAMP" \in PiecesOf(clauses[c]))
                   <=> generatorDialect = "mysql"

\* mysql, a field that is primary, unique and not nullable, with a default
CreateTableAssemblyWitness ==
  /\ migrationOutput.done
  /\ generatorDialect = "mysql"
  /\ diffOld = <<>>
  /\ \E i \in NewOnlyEntities :
       /\ Len(diffNew[i].fields) = 2
       /\ diffNew[i].fields[1].primary
       /\ diffNew[i].fields[1].unique
       /\ diffNew[i].fields[1].nullable = "false"
       /\ diffNew[i].fields[1].default # Undefined
  /\ migrationOutput.up[1][1] = "CREATE TABLE"

\* up and down statement of one change make a pair: the statement and its
\* reverse, or its placeholder
PairedStatements(change, up, down) ==
  LET table == entityToTableName(change.entity)
  IN CASE change.type = "entity_added" ->
            /\ SubSeq(up, 1, 2) = <<"CREATE TABLE", table>>
            /\ down = <<"DROP TABLE IF EXISTS", table, ";">>
       [] change.type = "entity_removed" ->
            /\ up = <<"DROP TABLE IF EXISTS", table, ";">>
            /\ down = <<"--", "Cannot recreate dropped table", table>>
       [] change.type = "field_added" ->
            /\ SubSeq(up, 1, 4) = <<"ALTER TABLE", table, "ADD COLUMN",
                                    fieldToColumnName(change.field)>>
            /\ down = <<"ALTER TABLE", table, "DROP COLUMN",
                        fieldToColumnName(change.field), ";">>
       [] change.type = "field_removed" ->
            /\ up = <<"ALTER TABLE", table, "DROP COLUMN",
                      fieldToColumnName(change.field), ";">>
            /\ down = <<"--", "Cannot recreate dropped column", change.entity, ".",
                        change.field>>
       [] OTHER ->
            /\ {table, fieldToColumnName(change.field)} \subseteq PiecesOf(up)
            /\ {table, fieldToColumnName(change.field)} \subseteq PiecesOf(down)

(***************************************************************************)
(* C28: for every diff produced by diffEntities and every dialect, up and  *)
(* down have the same length: each change contributes one statement to     *)
(* both lists or nothing to both (the relation changes), and down[i] is    *)
(* the reverse or the placeholder of up[i]; the down statements are listed *)
(* in the order of the up statements, not in reverse order.                *)
(***************************************************************************)
DownFollowsUpOrder ==
  migrationOutput.done
    => /\ Len(migrationOutput.up) = Len(migrationOutput.down)
       /\ Len(migrationOutput.up)
            = StatementOf(diffResult.changes, Len(diffResult.changes))
       /\ \A k \in DOMAIN diffResult.changes :
            EmitsStatement(diffResult.changes[k])
              => PairedStatements(
                   diffResult.changes[k],
                   migrationOutput.up[StatementOf(diffResult.changes, k)],
                   migrationOutput.down[StatementOf(diffResult.changes, k)])

\* three statements of a changed field and a removed relation that emits
\* none
DownFollowsUpOrderWitness ==
  /\ migrationOutput.done
  /\ generatorDialect = "postgresql"
  /\ Len(migrationOutput.up) = 3
  /\ Len(diffResult.changes) = 4
  /\ ChangesOfType("relation_removed") # {}
  /\ migrationOutput.up[1][5] = "TYPE"
  /\ migrationOutput.down[1][5] = "TYPE"

\* the entity lists without their relations
WithoutRelations(entities) ==
  [i \in DOMAIN entities |-> [entities[i] EXCEPT !.relations = <<>>]]

\* the two lists differ, and only by the names of the relations of their
\* entities
OnlyRelationsDiffer(old, new) ==
  /\ WithoutRelations(old) = WithoutRelations(new)
  /\ \E i \in DOMAIN old :
       {old[i].relations[k].name : k \in DOMAIN old[i].relations}
         # {new[i].relations[k].name : k \in DOMAIN new[i].relations}

\* a diff without its relation changes
WithoutRelationChanges(diff) ==
  [diff EXCEPT !.changes =
     SelectSeq(diff.changes,
               LAMBDA c : c.type \notin {"relation_added", "relation_removed"})]

\* the section of a migration file headed by the given line holds, up to
\* the end of the file or the next empty line, the one line "-- No changes"
ShowsNoChanges(content, heading) ==
  \E i \in DOMAIN content :
    /\ content[i] = <<heading>>
    /\ i + 1 \in DOMAIN content
    /\ content[i + 1] = <<"-- No changes">>
    /\ (i + 2 \in DOMAIN content => content[i + 2] = <<"">>)

(***************************************************************************)
(* C25: in every dialect the up, down and warnings of a generated          *)
(* migration are those of its diff without the relation_added and          *)
(* relation_removed changes.  When lastSnapshot and the current entities   *)
(* differ only by relations, generateMigration of the manager returns a    *)
(* migration (not null) whose up and down are empty and whose file shows   *)
(* "-- No changes" in the up and in the down section; saving that          *)
(* migration with the same entities makes them the lastSnapshot.           *)
(***************************************************************************)
RelationChangesEmitNothing ==
  [][/\ call'.op = "generateMigration" /\ result'.kind = "migration"
          => \A d \in SqlDialects :
               LET all == generateMigration(result'.value.diff,
                                            call'.entities, d)
                   rest == generateMigration(
                             WithoutRelationChanges(result'.value.diff),
                             call'.entities, d)
               IN /\ all.up = rest.up
                  /\ all.down = rest.down
                  /\ all.warnings = rest.warnings
     /\ (call'.op = "generateMigration"
           /\ OnlyRelationsDiffer(loadState(stateFile).lastSnapshot,
                                  call'.entities))
          => /\ result'.kind = "migration"
             /\ result'.value.output.up = <<>>
             /\ result'.value.output.down = <<>>
             /\ result'.value.output.warnings = <<>>
             /\ ShowsNoChanges(result'.value.content, "-- Up Migration")
             /\ ShowsNoChanges(result'.value.content,
                               "-- Down Migration (rollback)")
     /\ (call.op = "generateMigration" /\ result.kind = "migration"
           /\ OnlyRelationsDiffer(loadState(stateFile).lastSnapshot,
                                  call.entities)
           /\ call'.op = "saveMigration"
           /\ call'.entities = call.entities
           /\ call'.migration.name = result.value.name
           /\ call'.migration.timestamp = result.value.timestamp)
          => /\ loadState(stateFile').lastSnapshot = call.entities
             /\ GeneratesNothing(loadState(stateFile'), call.entities)]_vars

\* under mysql, generateMigration has returned a migration for the removal
\* of the relation "posts", the only difference with lastSnapshot
RelationChangesEmitNothingWitness ==
  /\ generatorDialect = "mysql"
  /\ call.op = "generateMigration"
  /\ Persisted.lastSnapshot = <<UserLinked>>
  /\ call.entities = <<UserV1>>
  /\ result.kind = "migration"
  /\ Len(result.value.diff.changes) = 1
  /\ result.value.diff.changes[1].type = "relation_removed"
  /\ result.value.output.up = <<>>
  /\ ShowsNoChanges(result.value.content, "-- Down Migration (rollback)")

\* generateMigration(E), in the state the file holds, is the diff of E
\* against the given snapshot: null when that diff is empty
DiffsAgainst(file, snapshot) ==
  \A E \in ManagerEntityLists :
    LET r == generateMigrationResult(loadState(file), E, <<>>, 1)
        diff == diffEntities(snapshot, E)
    IN IF diff.changes = <<>> THEN r = Null
       ELSE r.kind = "migration" /\ r.value.diff = diff

(***************************************************************************)
(* C27: when the state file is corrupt and baseline, recordApplied or      *)
(* saveMigration runs, the operation succeeds and leaves a valid file that *)
(* holds the empty default state with the change of the operation alone:   *)
(* nothing of the earlier snapshot or history is in it.  A following       *)
(* generateMigration(E) diffs E against the entities baseline or           *)
(* saveMigration was given, and against the empty list after               *)
(* recordApplied.                                                          *)
(***************************************************************************)
CorruptionStartsOver ==
  [][(stateFile.kind = "corrupt"
        /\ call'.op \in {"baseline", "recordApplied", "saveMigration"})
      => /\ stateFile'.kind = "valid"
         /\ call'.op = "baseline"
              => /\ result'.kind = "void"
                 /\ loadState(stateFile') = baselineState(FreshState, call'.entities)
                 /\ Len(loadState(stateFile').history) = 1
                 /\ DiffsAgainst(stateFile', call'.entities)
         /\ call'.op = "recordApplied"
              => /\ result'.kind = "void"
                 /\ loadState(stateFile')
                      = recordAppliedState(FreshState, call'.name,
                                           call'.direction, call'.content)
                 /\ Len(loadState(stateFile').history) = 1
                 /\ DiffsAgainst(stateFile', <<>>)
         /\ call'.op = "saveMigration"
              => /\ result'.kind = "path"
                 /\ loadState(stateFile')
                      = saveMigrationState(FreshState, call'.entities)
                 /\ loadState(stateFile').history = <<>>
                 /\ DiffsAgainst(stateFile', call'.entities)]_vars

\* recordApplied has left a state with no snapshot and its one record:
\* the manager started from a snapshot and a history and is given no
\* empty entity list, so the file was corrupt when recordApplied ran
CorruptionStartsOverWitness ==
  /\ call.op = "recordApplied"
  /\ stateFile.kind = "valid"
  /\ Persisted.lastSnapshot = <<>>
  /\ Len(Persisted.history) = 1
  /\ Persisted.history[1].name = call.name
  /\ result.kind = "void"

\* the names of the history records with direction "up"
AppliedNames == {Persisted.history[i].name :
                   i \in {k \in DOMAIN Persisted.history :
                            Persisted.history[k].direction = "up"}}

(***************************************************************************)
(* C29, as claimed: whenever getPendingMigrations has answered, every      *)
(* migration m whose file saveMigration has written is in the answer under *)
(* m.name if and only if recordApplied(m.name, "up") has not been called,  *)
(* that is, if no history record with direction "up" carries m.name; a     *)
(* record with direction "down" changes nothing to it.                     *)
(***************************************************************************)
PendingUntilApplied ==
  call.op = "getPendingMigrations"
    => \A m \in GeneratedMigrations :
         migrationFileName(m) \in migrationsDir.files
           => (m.name \in {result.value[i] : i \in DOMAIN result.value}
                 <=> m.name \notin AppliedNames)

\* generateMigration(entities) answers alike in the two states, whatever
\* the time
SameChangeSet(before, after, entities) ==
  \A now \in Instants :
    generateMigrationResult(after, entities, <<>>, now)
      = generateMigrationResult(before, entities, <<>>, now)

(***************************************************************************)
(* C30, as claimed: a saveMigration that throws because creating the       *)
(* directory or writing the migration file failed leaves the state file    *)
(* unchanged; one that throws because the state write failed leaves the    *)
(* migration file in the directory and lastSnapshot as it was, and the     *)
(* next generateMigration with the same entities returns the same change   *)
(* set again.                                                              *)
(***************************************************************************)
FailedSaveKeepsSnapshot ==
  [][(call'.op = "saveMigration" /\ result'.kind = "throws")
      => /\ result'.value \in {"mkdir", "writeFile"} => stateFile' = stateFile
         /\ result'.value = "saveState"
              => /\ migrationFileName(call'.migration) \in migrationsDir'.files
                 /\ loadState(stateFile').lastSnapshot
                      = loadState(stateFile).lastSnapshot
                 /\ SameChangeSet(loadState(stateFile), loadState(stateFile'),
                                  call'.entities)]_vars

(***************************************************************************)
(* C30, amended: a saveMigration that throws because creating the          *)
(* directory or writing the migration file failed leaves the state file    *)
(* unchanged.  One that throws because the state write failed leaves the   *)
(* migration file in the directory, and the state file either as it was,   *)
(* in which case the next generateMigration with the same entities returns *)
(* the same change set again, or cut short, in which case loadState reads  *)
(* the empty state and the next generateMigration diffs the entities       *)
(* against the empty list.                                                 *)
(***************************************************************************)
FailedSaveKeepsOrCutsState ==
  [][(call'.op = "saveMigration" /\ result'.kind = "throws")
      => /\ result'.value \in {"mkdir", "writeFile"} => stateFile' = stateFile
         /\ result'.value = "saveState"
              => /\ migrationFileName(call'.migration) \in migrationsDir'.files
                 /\ \/ /\ stateFile' = stateFile
                       /\ SameChangeSet(loadState(stateFile),
                                        loadState(stateFile'), call'.entities)
                    \/ /\ stateFile'.kind = "corrupt"
                       /\ loadState(stateFile') = FreshState
                       /\ DiffsAgainst(stateFile', <<>>)]_vars

\* saveMigration has thrown at the state write: the migration file is in
\* the directory and the state file holds the text of the new state, cut
\* short
FailedSaveKeepsOrCutsStateWitness ==
  /\ call.op = "saveMigration"
  /\ result.kind = "throws"
  /\ result.value = "saveState"
  /\ migrationFileName(call.migration) \in migrationsDir.files
  /\ stateFile.kind = "corrupt"
  /\ Len(call.entities) = 2
  /\ stateFile.content.history # <<>>

====
